---- MODULE Spec2Model ----
(***************************************************************************)
(* recurring-meeting-optimizer: the daily run that cancels today's         *)
(* recurring meetings whose attached Google Docs list no topics.           *)
(*                                                                         *)
(* Text is modelled as a sequence of tokens; a token is a TLA+ string that *)
(* stands for an indivisible run of characters (a word, a number, one      *)
(* punctuation mark, one whitespace character).                            *)
(*                                                                         *)
(* Spec is the run of main over the events of the day; SpecAnnotate is the *)
(* annotate step of cancel_event_occurrence applied to a description;      *)
(* SpecLocator is has_topics_for_today run on one document.                *)
(***************************************************************************)
EXTENDS Integers, Sequences, FiniteSets, TLC

(***************************************************************************)
(* Bounds of the model.                                                    *)
(***************************************************************************)
\* number of occurrences on today's calendar
NumEvents == 2
\* longest attachment list of an event
MaxAttachments == 2
\* longest description the annotate step is applied to, in tokens
MaxDescLen == 4
\* how many times in a row the annotate step is applied to a description
MaxAnnotations == 2
\* longest document the locator is run on, in content elements
MaxBlocks == 4
\* most blank elements inserted into a document at once
MaxBlanks == 2
\* most elements one pass of the locator is fed
MaxElements == 3
MaxEntries == 3
MaxDocs == 2
MaxPagesRead == 2
MaxPageItems == 2

(***************************************************************************)
(* Strings.                                                                *)
(***************************************************************************)
\* variant: only line ends are stripped
Whitespace_LineEnds == {"\n"}

\* characters str.strip() removes
Whitespace == {" ", "\n"}

\* str.startswith
StartsWith(s, p) == Len(s) >= Len(p) /\ SubSeq(s, 1, Len(p)) = p

RECURSIVE LStrip(_)
LStrip(s) == IF s # <<>> /\ Head(s) \in Whitespace THEN LStrip(Tail(s)) ELSE s

RECURSIVE RStrip(_)
RStrip(s) ==
    IF s # <<>> /\ s[Len(s)] \in Whitespace THEN RStrip(SubSeq(s, 1, Len(s) - 1)) ELSE s

\* str.strip()
Strip(s) == RStrip(LStrip(s))

\* str.rstrip(':') removes every trailing colon
RECURSIVE RStripColon(_)
RStripColon(s) ==
    IF s # <<>> /\ s[Len(s)] = ":" THEN RStripColon(SubSeq(s, 1, Len(s) - 1)) ELSE s

\* str.lower() on one token
LowerTok(t) ==
    CASE t \in {"Topics", "TOPICS"} -> "topics"
      [] t \in {"Topic", "TOPIC"} -> "topic"
      [] t \in {"Notes", "NOTES"} -> "notes"
      [] t = "Attendees" -> "attendees"
      [] t = "Action items" -> "action items"
      [] t = "Agenda" -> "agenda"
      [] OTHER -> t

\* str.lower()
Lower(s) == [i \in 1..Len(s) |-> LowerTok(s[i])]

(***************************************************************************)
(* docs_service.py: constants.                                             *)
(***************************************************************************)
DOC_MIME_TYPE == "application/vnd.google-apps.document"
MAX_URL_LENGTH == 2048
MAX_DOC_ID_LENGTH == 128
MAX_CONTENT_ELEMENTS == 10000

\* variant: "attendees" is not among the names
END_SECTION_NAMES_NoAttendees ==
    { <<"notes">>, <<"action items">>, <<"action item">>, <<"next steps">>,
      <<"next step">>, <<"agenda">>, <<"resources">>, <<"follow-up">>, <<"follow up">> }

END_SECTION_NAMES ==
    { <<"notes">>, <<"action items">>, <<"action item">>, <<"next steps">>,
      <<"next step">>, <<"attendees">>, <<"attendees", ":">>, <<"agenda">>,
      <<"resources">>, <<"follow-up">>, <<"follow up">> }

\* namedStyleType -> level; anything unknown is 99
HEADING_LEVELS(style) ==
    CASE style = "TITLE" -> 0
      [] style = "HEADING_1" -> 1
      [] style = "HEADING_2" -> 2
      [] style = "HEADING_3" -> 3
      [] style = "HEADING_4" -> 4
      [] style = "HEADING_5" -> 5
      [] style = "HEADING_6" -> 6
      [] style = "SUBTITLE" -> 7
      [] OTHER -> 99

(***************************************************************************)
(* Dates and the date prefix of a heading.                                 *)
(***************************************************************************)
MonthAbbr == <<"Jan", "Feb", "Mar", "Apr", "May", "Jun",
               "Jul", "Aug", "Sep", "Oct", "Nov", "Dec">>

\* decimal rendering of a day of the month or a year, as one token
DayTok(d) ==
    CASE d = 5 -> "5" [] d = 18 -> "18" [] d = 26 -> "26" [] OTHER -> "0"
YearTok(y) == CASE y = 2026 -> "2026" [] y = 2025 -> "2025" [] OTHER -> "0"

\* the day of the runs: datetime.datetime.now(ZoneInfo(tz_string)).date()
Today == [year |-> 2026, month |-> 2, day |-> 26]

\* variant: the day of the month is written with two digits, as %d writes it
build_today_date_prefix_PaddedDay(today) ==
    << MonthAbbr[today.month], " ",
       IF today.day < 10 THEN "05" ELSE DayTok(today.day), ",", " ", YearTok(today.year) >>

build_today_date_prefix(today) ==
    << MonthAbbr[today.month], " ", DayTok(today.day), ",", " ", YearTok(today.year) >>

\* tokens of the shapes [A-Z][a-z]{2}, \d{1,2}, \d{4}
Mon3Tokens == { MonthAbbr[i] : i \in 1..12 }
Day12Tokens == {"5", "05", "18", "26"}
Year4Tokens == {"2025", "2026"}

\* _DATE_PREFIX_RE.match(text): ^[A-Z][a-z]{2} \d{1,2}, \d{4}
DATE_PREFIX_RE_match(text) ==
    /\ Len(text) >= 6
    /\ text[1] \in Mon3Tokens
    /\ text[2] = " "
    /\ text[3] \in Day12Tokens
    /\ text[4] = ","
    /\ text[5] = " "
    /\ text[6] \in Year4Tokens

(***************************************************************************)
(* docs_service.py: the document model.                                    *)
(* A content element is [paragraph, style, elements]; elements are the     *)
(* inline elements [type, text] of the paragraph, text being the display   *)
(* text the element carries.                                               *)
(***************************************************************************)
TextElementTypes == {"textRun", "dateElement", "richLink", "person"}

RECURSIVE JoinParts(_)
JoinParts(elements) ==
    IF elements = <<>> THEN <<>>
    ELSE (IF Head(elements).type \in TextElementTypes THEN Head(elements).text ELSE <<>>)
             \o JoinParts(Tail(elements))

get_paragraph_text(paragraph) == Strip(JoinParts(paragraph.elements))

heading_level(paragraph) == HEADING_LEVELS(paragraph.style)

(***************************************************************************)
(* docs_service.py: has_topics_for_today, one iteration of the loop over   *)
(* content and the loop itself.                                            *)
(***************************************************************************)
STATE_SEARCHING_DATE == 0
STATE_SEARCHING_TOPICS == 1
STATE_CHECKING_CONTENT == 2

\* date_heading_level = None
NoLevel == -1

LocatorInit == [state |-> STATE_SEARCHING_DATE, date_heading_level |-> NoLevel,
                verdict |-> "none"]

\* variant: only a senior heading leaves today's section
LeavesSection_SeniorOnly(st, level, text) == level < st.date_heading_level

\* variant: only the heading of another day leaves today's section
LeavesSection_DateOnly(st, level, text) ==
    level = st.date_heading_level /\ DATE_PREFIX_RE_match(text)

\* variant: any heading of the rank of today's heading leaves today's section
LeavesSection_AnySameRank(st, level, text) == level <= st.date_heading_level

\* a heading that leaves today's section
LeavesSection(st, level, text) ==
    \/ level < st.date_heading_level
    \/ level = st.date_heading_level /\ DATE_PREFIX_RE_match(text)

\* variant: the loop has no element limit
LimitReached_Never(n) == FALSE

\* if elements_processed > _MAX_CONTENT_ELEMENTS
LimitReached(n) == n > MAX_CONTENT_ELEMENTS

\* the n-th element of content (n = elements_processed) seen in locator state st;
\* verdict "found" is return True, "not_found" is return False or break
\* variant: a Topics header is taken for one before today's heading was found
LocatorStep_HeaderAnywhere(st, element, n, date_prefix) ==
    LET text == get_paragraph_text(element)
        level == heading_level(element)
        is_heading == level < 99
    IN  IF LimitReached(n) THEN [st EXCEPT !.verdict = "not_found"]
        ELSE IF ~element.paragraph THEN st
        ELSE IF st.state = STATE_SEARCHING_DATE THEN
            IF is_heading /\ StartsWith(text, date_prefix)
            THEN [st EXCEPT !.state = STATE_SEARCHING_TOPICS, !.date_heading_level = level]
            ELSE IF RStripColon(Lower(text)) \in {<<"topics">>, <<"topic">>}
            THEN [st EXCEPT !.state = STATE_CHECKING_CONTENT]
            ELSE st
        ELSE IF st.state = STATE_SEARCHING_TOPICS THEN
            IF is_heading /\ LeavesSection(st, level, text)
            THEN [st EXCEPT !.verdict = "not_found"]
            ELSE IF RStripColon(Lower(text)) \in {<<"topics">>, <<"topic">>}
            THEN [st EXCEPT !.state = STATE_CHECKING_CONTENT]
            ELSE st
        ELSE
            IF is_heading /\ LeavesSection(st, level, text)
            THEN [st EXCEPT !.verdict = "not_found"]
            ELSE IF Lower(text) \in END_SECTION_NAMES
            THEN [st EXCEPT !.verdict = "not_found"]
            ELSE IF text # <<>>
            THEN [st EXCEPT !.verdict = "found"]
            ELSE st

\* variant: the names that end the Topics section end the pass before the Topics
\* header too
LocatorStep_NamesEndEarly(st, element, n, date_prefix) ==
    LET text == get_paragraph_text(element)
        level == heading_level(element)
        is_heading == level < 99
    IN  IF LimitReached(n) THEN [st EXCEPT !.verdict = "not_found"]
        ELSE IF ~element.paragraph THEN st
        ELSE IF st.state = STATE_SEARCHING_DATE THEN
            IF is_heading /\ StartsWith(text, date_prefix)
            THEN [st EXCEPT !.state = STATE_SEARCHING_TOPICS, !.date_heading_level = level]
            ELSE st
        ELSE IF is_heading /\ LeavesSection(st, level, text)
        THEN [st EXCEPT !.verdict = "not_found"]
        ELSE IF Lower(text) \in END_SECTION_NAMES
        THEN [st EXCEPT !.verdict = "not_found"]
        ELSE IF st.state = STATE_SEARCHING_TOPICS THEN
            IF RStripColon(Lower(text)) \in {<<"topics">>, <<"topic">>}
            THEN [st EXCEPT !.state = STATE_CHECKING_CONTENT]
            ELSE st
        ELSE IF text # <<>> THEN [st EXCEPT !.verdict = "found"]
        ELSE st

LocatorStep(st, element, n, date_prefix) ==
    LET text == get_paragraph_text(element)
        level == heading_level(element)
        is_heading == level < 99
    IN  IF LimitReached(n) THEN [st EXCEPT !.verdict = "not_found"]
        ELSE IF ~element.paragraph THEN st
        ELSE IF st.state = STATE_SEARCHING_DATE THEN
            IF is_heading /\ StartsWith(text, date_prefix)
            THEN [st EXCEPT !.state = STATE_SEARCHING_TOPICS, !.date_heading_level = level]
            ELSE st
        ELSE IF st.state = STATE_SEARCHING_TOPICS THEN
            IF is_heading /\ LeavesSection(st, level, text)
            THEN [st EXCEPT !.verdict = "not_found"]
            ELSE IF RStripColon(Lower(text)) \in {<<"topics">>, <<"topic">>}
            THEN [st EXCEPT !.state = STATE_CHECKING_CONTENT]
            ELSE st
        ELSE
            IF is_heading /\ LeavesSection(st, level, text)
            THEN [st EXCEPT !.verdict = "not_found"]
            ELSE IF Lower(text) \in END_SECTION_NAMES
            THEN [st EXCEPT !.verdict = "not_found"]
            ELSE IF text # <<>>
            THEN [st EXCEPT !.verdict = "found"]
            ELSE st

\* variant: the loop goes on after return True and return False
RECURSIVE Locate_PastReturn(_, _, _, _)
Locate_PastReturn(st, content, n, date_prefix) ==
    IF n > Len(content) THEN st
    ELSE Locate_PastReturn(LocatorStep(st, content[n], n, date_prefix), content, n + 1,
                           date_prefix)

RECURSIVE Locate(_, _, _, _)
Locate(st, content, n, date_prefix) ==
    IF n > Len(content) \/ st.verdict # "none" THEN st
    ELSE Locate(LocatorStep(st, content[n], n, date_prefix), content, n + 1, date_prefix)

\* variant: a document that ends under today's heading without a Topics header
\* counts as having topics
has_topics_for_today_KeepWithoutTopics(content, today) ==
    LET st == Locate(LocatorInit, content, 1, build_today_date_prefix(today))
    IN  st.verdict = "found" \/ (st.verdict = "none" /\ st.state = STATE_SEARCHING_TOPICS)

has_topics_for_today(content, today) ==
    Locate(LocatorInit, content, 1, build_today_date_prefix(today)).verdict = "found"

(***************************************************************************)
(* docs_service.py: fetch_doc_content on the response of documents().get.  *)
(* A response is [shape, content]: shape tells which part of the response  *)
(* has the expected type.                                                  *)
(***************************************************************************)
\* variant: body.content is passed on without looking at its type
fetch_doc_content_AnyContent(response) ==
    IF response.shape = "not_dict" THEN <<>>
    ELSE IF response.shape = "body_not_dict" THEN <<>>
    ELSE response.content

fetch_doc_content(response) ==
    IF response.shape = "not_dict" THEN <<>>
    ELSE IF response.shape = "body_not_dict" THEN <<>>
    ELSE IF response.shape = "content_not_list" THEN <<>>
    ELSE response.content

(***************************************************************************)
(* docs_service.py: extract_doc_ids_from_event.                            *)
(* An attachment is [is_dict, mimeType, fileUrl]; a fileUrl is             *)
(* [is_str, len, match], match being the id the pattern /document/d/<id>   *)
(* first finds in it, NoMatch if none; a doc id is [name, len].            *)
(***************************************************************************)
NoMatch == [name |-> "", len |-> 0]

\* variant: the mime type of the attachment is not looked at
AttachmentSkipped_AnyMime(attachment) ==
    \/ ~attachment.is_dict
    \/ ~attachment.fileUrl.is_str
    \/ attachment.fileUrl.len > MAX_URL_LENGTH
    \/ attachment.fileUrl.match = NoMatch
    \/ attachment.fileUrl.match.len > MAX_DOC_ID_LENGTH

AttachmentSkipped(attachment) ==
    \/ ~attachment.is_dict
    \/ attachment.mimeType # DOC_MIME_TYPE
    \/ ~attachment.fileUrl.is_str
    \/ attachment.fileUrl.len > MAX_URL_LENGTH
    \/ attachment.fileUrl.match = NoMatch
    \/ attachment.fileUrl.match.len > MAX_DOC_ID_LENGTH

RECURSIVE DocIdsOf(_)
DocIdsOf(attachments) ==
    IF attachments = <<>> THEN <<>>
    ELSE (IF AttachmentSkipped(Head(attachments)) THEN <<>>
          ELSE << Head(attachments).fileUrl.match >>) \o DocIdsOf(Tail(attachments))

\* event.attachments is [is_list, items]
extract_doc_ids_from_event(event) ==
    IF ~event.attachments.is_list THEN <<>> ELSE DocIdsOf(event.attachments.items)

(***************************************************************************)
(* canceller.py, calendar_service.py: constants and the description the    *)
(* annotate step writes.                                                   *)
(***************************************************************************)
\* "Meeting canceled since there are no topics to be discussed today"
CANCELLATION_NOTE == <<"Meeting canceled since there are no topics to be discussed", " ", "today">>

\* variant: the note put after the existing description
NewDescription_NoteLast(note, existing_desc) == Strip(existing_desc \o <<"\n", "\n">> \o note)

\* variant: the joined text is written as it is
NewDescription_Unstripped(note, existing_desc) == note \o <<"\n", "\n">> \o existing_desc

\* f"{note}\n\n{existing_desc}".strip()
NewDescription(note, existing_desc) == Strip(note \o <<"\n", "\n">> \o existing_desc)

\* variant: the description is patched whatever it starts with
NeedsPatch_Always(note, existing_desc) == TRUE

\* variant: the guard compares the whole description with the note
NeedsPatch_UnlessEqual(note, existing_desc) == existing_desc # note

\* if not existing_desc.startswith(note)
NeedsPatch(note, existing_desc) == ~StartsWith(existing_desc, note)

(***************************************************************************)
(* The inputs of a run.                                                    *)
(***************************************************************************)
EventIds == 1..NumEvents

\* descriptions an occurrence can carry before the first run; an absent
\* description reads as the empty one (event.get('description', '') or '')
InitDescriptions ==
    { <<>>,
      <<"Weekly sync">>,
      CANCELLATION_NOTE \o <<"\n", "\n", "Weekly sync">> }

\* kinds of calendar items of the day
ItemKinds == {"recurring_timed", "one_off", "all_day"}

DocA == [name |-> "docA", len |-> 44]
DocB == [name |-> "docB", len |-> 44]
DocLong == [name |-> "docLong", len |-> 129]

Url(len, match) == [is_str |-> TRUE, len |-> len, match |-> match]

AttachmentCatalog ==
    { [is_dict |-> TRUE, mimeType |-> DOC_MIME_TYPE, fileUrl |-> Url(80, DocA)],
      [is_dict |-> TRUE, mimeType |-> DOC_MIME_TYPE, fileUrl |-> Url(80, DocB)],
      [is_dict |-> TRUE, mimeType |-> "application/pdf", fileUrl |-> Url(80, DocA)],
      [is_dict |-> TRUE, mimeType |-> DOC_MIME_TYPE,
       fileUrl |-> [is_str |-> FALSE, len |-> 0, match |-> NoMatch]],
      [is_dict |-> TRUE, mimeType |-> DOC_MIME_TYPE, fileUrl |-> Url(2049, DocA)],
      [is_dict |-> TRUE, mimeType |-> DOC_MIME_TYPE, fileUrl |-> Url(40, NoMatch)],
      [is_dict |-> TRUE, mimeType |-> DOC_MIME_TYPE, fileUrl |-> Url(0, NoMatch)],
      [is_dict |-> TRUE, mimeType |-> DOC_MIME_TYPE, fileUrl |-> Url(165, DocLong)],
      [is_dict |-> FALSE, mimeType |-> "", fileUrl |-> Url(0, NoMatch)] }

SeqsUpTo(S, n) == UNION { [1..k -> S] : k \in 0..n }

\* the attachments of the events of a run: a document and a PDF
RunAttachments == { a \in AttachmentCatalog : a.is_dict /\ a.fileUrl = Url(80, DocA) }

\* the values of event.get('attachments', [])
AttachmentValues ==
    { [is_list |-> TRUE, items |-> items] : items \in SeqsUpTo(RunAttachments, MaxAttachments) }
        \cup { [is_list |-> FALSE, items |-> <<>>] }

Para(text) ==
    [paragraph |-> TRUE, style |-> "NORMAL_TEXT",
     elements |-> << [type |-> "textRun", text |-> text \o <<"\n">>] >>]
Heading(text, style) ==
    [paragraph |-> TRUE, style |-> style,
     elements |-> << [type |-> "textRun", text |-> text \o <<"\n">>] >>]
SectionBreak == [paragraph |-> FALSE, style |-> "", elements |-> <<>>]

Feb26 == <<"Feb", " ", "26", ",", " ", "2026">>
Feb18 == <<"Feb", " ", "18", ",", " ", "2026">>
Title == <<" ", "|", " ", "Team Sync">>

\* documents the Docs API can answer with
DocCatalog ==
    { <<>>,
      << SectionBreak, Heading(Feb26 \o Title, "HEADING_2"), Para(<<"Topic", ":">>),
         Para(<<"-", " ", "Real topic">>), Para(<<"Notes">>) >>,
      << Heading(Feb26 \o Title, "HEADING_2"), Para(<<"Topic", ":">>), Para(<<>>),
         Para(<<" ", " ">>), Para(<<"Notes">>) >>,
      << Heading(Feb26 \o Title, "HEADING_2"), Para(<<"Attendees", ":", " ", "A">>),
         Para(<<"Notes">>) >>,
      << Heading(Feb26 \o Title, "HEADING_2"), Heading(Feb18 \o Title, "HEADING_2"),
         Para(<<"Topic", ":">>), Para(<<"-", " ", "Old">>) >> }

\* what documents().get(...).execute() does: answer, or raise
FetchOutcomes ==
    { [raises |-> "none", response |-> [shape |-> "ok", content |-> d]] : d \in DocCatalog }
        \cup { [raises |-> "none", response |-> [shape |-> sh, content |-> <<>>]] :
                 sh \in {"not_dict", "body_not_dict", "content_not_list"} }
        \cup { [raises |-> e, response |-> [shape |-> "none", content |-> <<>>]] :
                 e \in {"HttpError", "HttpLib2Error"} }

(***************************************************************************)
(* The state of a run.                                                     *)
(***************************************************************************)
VARIABLES
    calendar,      \* the calendar service: id -> [kind, status, description]
    pc,            \* where main is
    dry_run,       \* args.dry_run
    events,        \* what get_todays_recurring_events returned
    idx,           \* position of main's loop in events
    attachments,   \* event.get('attachments', []) of the event being processed
    doc_ids,       \* should_cancel_event: doc_ids
    doc_pos,       \* should_cancel_event: position of the loop in doc_ids
    any_doc_read,  \* should_cancel_event: any_doc_read
    result,        \* what should_cancel_event returned
    fetched,       \* how each fetch issued for this event ended, in order
    calls,         \* the calendar mutations issued for this event, in order
    raised,        \* the exception that left process_event
    critical,      \* a CRITICAL record was logged for this event
    processed,     \* the ids of the events process_event was called with, in order
    errors_logged, \* how many "Error processing event" records main logged
    report         \* the last record main logs in the run

(***************************************************************************)
(* The state of the annotate step taken alone.                             *)
(***************************************************************************)
VARIABLES
    original_desc, \* the description the event has before the first application
    written        \* the description the event has after each application, in order

(***************************************************************************)
(* The state of the locator run on one document, and of the decision for   *)
(* an event whose only document it is.                                     *)
(***************************************************************************)
VARIABLES
    doc_content,   \* the content of the document
    locator,       \* the state has_topics_for_today ended in on doc_content
    doc_decision,  \* what should_cancel_event returns for the event
    inserted,      \* the elements put into doc_content afterwards, and where
    variant,       \* doc_content with the inserted elements
    skipped,       \* how many elements the loop went over before doc_content
    scan_date      \* the day has_topics_for_today is called for

(***************************************************************************)
(* The state of extract_doc_ids_from_event called on one event.            *)
(***************************************************************************)
VARIABLES
    event_attachments, \* event.get('attachments', [])
    inspected,         \* how many attachments the loop has taken
    found_ids,         \* doc_ids
    returned           \* the function has returned found_ids

(***************************************************************************)
(* The state of should_cancel_event called on one event, the answers of    *)
(* the Docs API for its documents being known beforehand.                  *)
(***************************************************************************)
VARIABLES
    responses,      \* what the fetch of each doc id does, in doc_ids order
    tried,          \* how many fetches have been issued
    read_any,       \* any_doc_read
    event_decision  \* what should_cancel_event returned

(***************************************************************************)
(* The state of main from its start to the end of the run, with            *)
(* get_credentials taken step by step.                                     *)
(***************************************************************************)
VARIABLES
    last_success,  \* the last-successful-run marker: absent, an earlier day or today
    env,           \* the files main finds and what the calls it makes will do
    token_file,    \* the file at TOKEN_PATH
    main_pc,       \* where main is
    gc_pc,         \* where get_credentials is
    creds,         \* get_credentials: creds
    flow_runs,     \* how many times the browser flow was run
    list_calls     \* how many times get_todays_recurring_events was called

(***************************************************************************)
(* The state of get_todays_recurring_events, one page at a time.           *)
(***************************************************************************)
VARIABLES
    pages_before,  \* how many pages the loop had fetched before the first state
    pages_fetched, \* pages_fetched
    page_calls,    \* how many list calls have been issued
    page_token,    \* page_token
    collected,     \* events
    list_pc        \* where get_todays_recurring_events is

run_vars == << calendar, pc, dry_run, events, idx, attachments, doc_ids, doc_pos,
               any_doc_read, result, fetched, calls, raised, critical,
               processed, errors_logged, report >>

annotate_vars == << original_desc, written >>

locator_vars == << doc_content, locator, doc_decision, inserted, variant,
                   skipped, scan_date >>

resolver_vars == << event_attachments, inspected, found_ids, returned >>

list_vars == << pages_before, pages_fetched, page_calls, page_token, collected, list_pc >>

main_vars == << last_success, env, token_file, main_pc, gc_pc, creds, flow_runs,
               list_calls >>

decide_vars == << responses, tried, read_any, event_decision >>

vars == << run_vars, annotate_vars, locator_vars, resolver_vars, decide_vars, main_vars, list_vars >>

\* the annotate step taken alone is not in use
AnnotateIdle == original_desc = <<>> /\ written = <<>>

\* has_topics_for_today has not been called
NotScanned == [state |-> STATE_SEARCHING_DATE, date_heading_level |-> NoLevel,
               verdict |-> "not_called"]
NoInsert == [at |-> 0, blanks |-> <<>>]

\* the locator taken alone is not in use
LocatorIdle ==
    /\ doc_content = <<>>
    /\ locator = NotScanned
    /\ doc_decision = [cancel |-> FALSE, reason |-> "none"]
    /\ inserted = NoInsert
    /\ variant = <<>>
    /\ skipped = 0
    /\ scan_date = Today

NoResult == [cancel |-> FALSE, reason |-> "none"]
NoAttachments == [is_list |-> TRUE, items |-> <<>>]

\* extract_doc_ids_from_event taken alone is not in use
ResolverIdle ==
    /\ event_attachments = NoAttachments
    /\ inspected = 0
    /\ found_ids = <<>>
    /\ returned = FALSE

\* get_todays_recurring_events taken alone is not in use
ListIdle ==
    /\ pages_before = 0
    /\ pages_fetched = 0
    /\ page_calls = 0
    /\ page_token = "none"
    /\ collected = <<>>
    /\ list_pc = "idle"

\* what main finds when no run of it is looked at
NoEnv == [client_file |-> TRUE, token |-> "absent", unlink |-> "ok", refresh |-> "ok",
          flow |-> "ok", save |-> "ok"]

\* main taken alone is not in use
MainIdle ==
    /\ last_success = "absent"
    /\ env = NoEnv
    /\ token_file = "absent"
    /\ main_pc = "idle"
    /\ gc_pc = "idle"
    /\ creds = "none"
    /\ flow_runs = 0
    /\ list_calls = 0

\* should_cancel_event taken alone is not in use
DecideIdle ==
    /\ responses = <<>>
    /\ tried = 0
    /\ read_any = FALSE
    /\ event_decision = NoResult

\* the last record of a run is [logged, counts]: whether it has been logged and the
\* numbers it carries
NoReport == [logged |-> FALSE, counts |-> <<>>]
\* logger.info("recurring-meeting-optimizer finished.")
FinishedRecord == [logged |-> TRUE, counts |-> <<>>]

\* no run has started
RunIdle ==
    /\ pc = "idle"
    /\ dry_run = FALSE
    /\ events = <<>>
    /\ idx = 1
    /\ attachments = NoAttachments
    /\ doc_ids = <<>>
    /\ doc_pos = 1
    /\ any_doc_read = FALSE
    /\ result = NoResult
    /\ fetched = <<>>
    /\ calls = <<>>
    /\ raised = "none"
    /\ critical = FALSE
    /\ processed = <<>>
    /\ errors_logged = 0
    /\ report = NoReport

Init ==
    /\ calendar \in [EventIds -> [kind : ItemKinds, status : {"confirmed"},
                                  description : InitDescriptions]]
    /\ \A i \in EventIds :
         calendar[i].kind # "recurring_timed" => calendar[i].description = <<>>
    /\ RunIdle
    /\ ResolverIdle
    /\ DecideIdle
    /\ MainIdle
    /\ ListIdle
    /\ AnnotateIdle
    /\ LocatorIdle

\* the locals of process_event before it starts
ResetEvent ==
    /\ attachments' = NoAttachments
    /\ doc_ids' = <<>>
    /\ doc_pos' = 1
    /\ any_doc_read' = FALSE
    /\ result' = NoResult
    /\ fetched' = <<>>
    /\ calls' = <<>>
    /\ raised' = "none"
    /\ critical' = FALSE

(***************************************************************************)
(* calendar_service.py: get_todays_recurring_events. The list call answers *)
(* with the items of the day in id order; the function keeps the recurring *)
(* instances that are not cancelled and have a start time.                 *)
(***************************************************************************)
\* variant: the status of the item is not looked at
KeptByFilter_AnyStatus(item) == item.kind = "recurring_timed"

MAX_PAGES == 100

\* variant: the loop has no page limit
PageLimitReached_Never(n) == FALSE

\* if pages_fetched >= _MAX_PAGES
PageLimitReached(n) == n >= MAX_PAGES

\* except (HttpError, httplib2.HttpLib2Error, OSError)
CaughtAsPageFailure(exc) == exc \in {"HttpError", "HttpLib2Error", "OSError"}

KeptByFilter(item) == item.kind = "recurring_timed" /\ item.status # "cancelled"

RECURSIVE FilterItems(_, _)
FilterItems(cal, i) ==
    IF i > NumEvents THEN <<>>
    ELSE (IF KeptByFilter(cal[i])
          THEN << [id |-> i, description |-> cal[i].description] >>
          ELSE <<>>) \o FilterItems(cal, i + 1)

get_todays_recurring_events(cal) == FilterItems(cal, 1)

(***************************************************************************)
(* main.py: main, up to the loop over the events.                          *)
(***************************************************************************)
StartRun ==
    /\ UNCHANGED << annotate_vars, locator_vars, resolver_vars, decide_vars, main_vars, list_vars >>
    /\ pc = "idle"
    /\ dry_run' \in BOOLEAN
    /\ events' = get_todays_recurring_events(calendar)
    /\ idx' = 1
    /\ pc' = "loop"
    /\ ResetEvent
    /\ processed' = <<>>
    /\ errors_logged' = 0
    /\ report' = NoReport
    /\ UNCHANGED calendar

\* the event process_event is working on
Event == events[idx]

(***************************************************************************)
(* canceller.py: should_cancel_event.                                      *)
(***************************************************************************)
Decision(cancel, reason) == [cancel |-> cancel, reason |-> reason]

\* variant: the empty list of doc ids is not recognised
NoDocIds_Never(ids) == FALSE

\* if not doc_ids
NoDocIds(ids) == ids = <<>>

\* variant: the scan of the documents goes on after one with topics
ReturnsOnTopics_Never(found) == FALSE

\* if docs_service.has_topics_for_today(content, today): return False, 'has_topics'
ReturnsOnTopics(found) == found

\* except HttpError
CaughtAsDocError(exc) == exc = "HttpError"

\* variant: cancel also when no document could be read
DecisionAfterLoop_CancelUnread(any_read) ==
    IF ~any_read THEN [cancel |-> TRUE, reason |-> "doc_error"]
    ELSE [cancel |-> TRUE, reason |-> "no_topics"]

\* the return after the loop over doc_ids
DecisionAfterLoop(any_read) ==
    IF ~any_read THEN Decision(FALSE, "doc_error") ELSE Decision(TRUE, "no_topics")

\* process_event takes the next event; should_cancel_event resolves its doc ids
ProcessEvent ==
    /\ UNCHANGED << annotate_vars, locator_vars, resolver_vars, decide_vars, main_vars, list_vars >>
    /\ pc = "loop"
    /\ idx <= Len(events)
    /\ \E a \in AttachmentValues :
         LET ids == extract_doc_ids_from_event([attachments |-> a])
         IN  /\ attachments' = a
             /\ doc_ids' = ids
             /\ IF NoDocIds(ids)
                THEN result' = Decision(FALSE, "no_doc") /\ pc' = "decided"
                ELSE result' = NoResult /\ pc' = "fetch"
    /\ doc_pos' = 1
    /\ any_doc_read' = FALSE
    /\ fetched' = <<>>
    /\ calls' = <<>>
    /\ raised' = "none"
    /\ critical' = FALSE
    /\ processed' = Append(processed, Event.id)
    /\ UNCHANGED << calendar, dry_run, events, idx, errors_logged, report >>

\* one iteration of the loop over doc_ids: fetch the document and look for topics
FetchDoc ==
    /\ UNCHANGED << annotate_vars, locator_vars, resolver_vars, decide_vars, main_vars, list_vars >>
    /\ pc = "fetch"
    /\ doc_pos <= Len(doc_ids)
    /\ \E o \in FetchOutcomes :
         IF o.raises # "none"
         THEN IF CaughtAsDocError(o.raises)
              THEN /\ fetched' = Append(fetched, o.raises)
                   /\ doc_pos' = doc_pos + 1
                   /\ UNCHANGED << pc, any_doc_read, result, raised >>
              ELSE /\ fetched' = Append(fetched, o.raises)
                   /\ raised' = o.raises
                   /\ pc' = "raised"
                   /\ UNCHANGED << doc_pos, any_doc_read, result >>
         ELSE LET content == fetch_doc_content(o.response)
                  found == has_topics_for_today(content, Today)
              IN  /\ any_doc_read' = TRUE
                  /\ fetched' = Append(fetched, IF found THEN "topics_present" ELSE "no_topics")
                  /\ IF ReturnsOnTopics(found)
                     THEN /\ result' = Decision(FALSE, "has_topics")
                          /\ pc' = "decided"
                          /\ UNCHANGED doc_pos
                     ELSE /\ doc_pos' = doc_pos + 1
                          /\ UNCHANGED << pc, result >>
                  /\ UNCHANGED raised
    /\ UNCHANGED << calendar, dry_run, events, idx, attachments, doc_ids,
                    calls, critical, processed, errors_logged, report >>

\* the loop over doc_ids is exhausted
DecideAfterLoop ==
    /\ UNCHANGED << annotate_vars, locator_vars, resolver_vars, decide_vars, main_vars, list_vars >>
    /\ pc = "fetch"
    /\ doc_pos > Len(doc_ids)
    /\ result' = DecisionAfterLoop(any_doc_read)
    /\ pc' = "decided"
    /\ UNCHANGED << calendar, dry_run, events, idx, attachments, doc_ids, doc_pos,
                    any_doc_read, fetched, calls, raised, critical,
                    processed, errors_logged, report >>

(***************************************************************************)
(* canceller.py: process_event, after should_cancel_event returned.        *)
(***************************************************************************)
\* variant: the decision is not looked at
CallsCanceller_AnyDecision(decision, dry) == ~dry

\* variant: dry_run is not looked at
CallsCanceller_InDryRun(decision, dry) == decision.cancel

\* if cancel: if dry_run: ... else: cancel_event_occurrence(...)
CallsCanceller(decision, dry) == decision.cancel /\ ~dry

\* "Keeping ..." or "[DRY RUN] Would cancel ..."
LogOnly ==
    /\ UNCHANGED << annotate_vars, locator_vars, resolver_vars, decide_vars, main_vars, list_vars >>
    /\ pc = "decided"
    /\ ~CallsCanceller(result, dry_run)
    /\ pc' = "returned"
    /\ UNCHANGED << calendar, dry_run, events, idx, attachments, doc_ids, doc_pos,
                    any_doc_read, result, fetched, calls, raised, critical,
                    processed, errors_logged, report >>

(***************************************************************************)
(* calendar_service.py: cancel_event_occurrence.                           *)
(***************************************************************************)
\* variant: a failure of the patch call is swallowed and the delete call follows
PatchRaises_Swallowed == pc' = "delete" /\ UNCHANGED raised

\* patch(...).execute() raises: nothing catches it before process_event's caller
PatchRaises == raised' = "patch_error" /\ pc' = "raised"

\* the idempotency guard and the patch call
Annotate ==
    /\ UNCHANGED << annotate_vars, locator_vars, resolver_vars, decide_vars, main_vars, list_vars >>
    /\ pc = "decided"
    /\ CallsCanceller(result, dry_run)
    /\ LET existing_desc == Event.description
       IN  IF NeedsPatch(CANCELLATION_NOTE, existing_desc)
           THEN \/ /\ calendar' = [calendar EXCEPT ![Event.id].description =
                                       NewDescription(CANCELLATION_NOTE, existing_desc)]
                   /\ calls' = Append(calls, "patch")
                   /\ pc' = "delete"
                   /\ UNCHANGED raised
                \/ /\ calls' = Append(calls, "patch_failed")
                   /\ PatchRaises
                   /\ UNCHANGED calendar
           ELSE /\ pc' = "delete"
                /\ UNCHANGED << calendar, calls, raised >>
    /\ UNCHANGED << dry_run, events, idx, attachments, doc_ids, doc_pos,
                    any_doc_read, result, fetched, critical,
                    processed, errors_logged, report >>

\* variant: the failure is re-raised without the CRITICAL record
DeleteRaises_NoCritical == critical' = FALSE /\ raised' = "delete_error" /\ pc' = "raised"

\* except Exception: logger.critical(... INCOMPLETE ...); raise
DeleteRaises == critical' = TRUE /\ raised' = "delete_error" /\ pc' = "raised"

\* the delete call
Remove ==
    /\ UNCHANGED << annotate_vars, locator_vars, resolver_vars, decide_vars, main_vars, list_vars >>
    /\ pc = "delete"
    /\ \/ /\ calendar' = [calendar EXCEPT ![Event.id].status = "cancelled"]
          /\ calls' = Append(calls, "delete")
          /\ pc' = "returned"
          /\ UNCHANGED << raised, critical >>
       \/ /\ calls' = Append(calls, "delete_failed")
          /\ DeleteRaises
          /\ UNCHANGED calendar
    /\ UNCHANGED << dry_run, events, idx, attachments, doc_ids, doc_pos,
                    any_doc_read, result, fetched, processed, errors_logged, report >>

(***************************************************************************)
(* main.py: the loop over the events.                                      *)
(***************************************************************************)
\* variant: an exception of process_event ends the loop
NextEvent_AbortsOnRaise ==
    /\ UNCHANGED << annotate_vars, locator_vars, resolver_vars, decide_vars, main_vars, list_vars >>
    /\ pc \in {"returned", "raised"}
    /\ idx' = IF pc = "raised" THEN Len(events) + 1 ELSE idx + 1
    /\ errors_logged' = IF pc = "raised" THEN errors_logged + 1 ELSE errors_logged
    /\ pc' = "loop"
    /\ ResetEvent
    /\ UNCHANGED << calendar, dry_run, events, processed, report >>

\* process_event returned, or raised and main logged the exception
NextEvent ==
    /\ UNCHANGED << annotate_vars, locator_vars, resolver_vars, decide_vars, main_vars, list_vars >>
    /\ pc \in {"returned", "raised"}
    /\ idx' = idx + 1
    /\ errors_logged' = IF pc = "raised" THEN errors_logged + 1 ELSE errors_logged
    /\ pc' = "loop"
    /\ ResetEvent
    /\ UNCHANGED << calendar, dry_run, events, processed, report >>

\* the loop is over: "recurring-meeting-optimizer finished."
FinishRun ==
    /\ UNCHANGED << annotate_vars, locator_vars, resolver_vars, decide_vars, main_vars, list_vars >>
    /\ pc = "loop"
    /\ idx > Len(events)
    /\ pc' = "idle"
    /\ report' = FinishedRecord
    /\ UNCHANGED << calendar, dry_run, events, idx, attachments, doc_ids, doc_pos,
                    any_doc_read, result, fetched, calls, raised, critical,
                    processed, errors_logged >>

Next ==
    \/ StartRun
    \/ ProcessEvent
    \/ FetchDoc
    \/ DecideAfterLoop
    \/ LogOnly
    \/ Annotate
    \/ Remove
    \/ NextEvent
    \/ FinishRun

Spec == Init /\ [][Next]_vars

(***************************************************************************)
(* calendar_service.py: the annotate step of cancel_event_occurrence taken *)
(* alone, applied to a description and again to the description it leaves. *)
(***************************************************************************)
\* the tokens of the note, whitespace and a word
DescTokens == { CANCELLATION_NOTE[i] : i \in 1..Len(CANCELLATION_NOTE) }
                  \cup {"\n", "Weekly sync"}

Descriptions == SeqsUpTo(DescTokens, MaxDescLen)

\* a day without occurrences
NoOccurrences ==
    [i \in EventIds |-> [kind |-> "one_off", status |-> "confirmed", description |-> <<>>]]

\* the description of the event after the guard and the patch call
AnnotateStep(note, existing_desc) ==
    IF NeedsPatch(note, existing_desc) THEN NewDescription(note, existing_desc)
    ELSE existing_desc

InitAnnotate ==
    /\ original_desc \in Descriptions
    /\ written = <<>>
    /\ calendar = NoOccurrences
    /\ RunIdle
    /\ ResolverIdle
    /\ DecideIdle
    /\ MainIdle
    /\ ListIdle
    /\ LocatorIdle

\* the description the next application reads
CurrentDesc == IF written = <<>> THEN original_desc ELSE written[Len(written)]

ApplyAnnotate ==
    /\ Len(written) < MaxAnnotations
    /\ written' = Append(written, AnnotateStep(CANCELLATION_NOTE, CurrentDesc))
    /\ UNCHANGED << original_desc, run_vars, locator_vars, resolver_vars,
                    decide_vars, main_vars, list_vars >>

NextAnnotate == ApplyAnnotate

SpecAnnotate == InitAnnotate /\ [][NextAnnotate]_vars

(***************************************************************************)
(* docs_service.py: has_topics_for_today run on one document, and          *)
(* canceller.py: should_cancel_event for an event whose only document it   *)
(* is. Afterwards blank elements are put into the document at a place      *)
(* where the locator is checking the content under the Topics header.      *)
(***************************************************************************)
\* the content elements documents are made of
Blocks ==
    { Heading(Feb26 \o Title, "HEADING_2"),
      Heading(Feb18 \o Title, "HEADING_2"),
      Para(<<"Topic", ":">>),
      Para(<<"-", " ", "Real topic">>),
      Para(<<"Notes">>) }

Contents == SeqsUpTo(Blocks, MaxBlocks)

\* content elements whose text is empty once stripped
BlankBlocks ==
    { Para(<<>>), Para(<<" ", " ">>), Heading(<<>>, "HEADING_2"), Heading(<<>>, "HEADING_1") }

\* the state of the locator after the first n elements of content
LocatorAfter(content, n) ==
    Locate(LocatorInit, SubSeq(content, 1, n), 1, build_today_date_prefix(Today))

\* should_cancel_event on an event with one doc id whose fetch answers with content
SingleDocDecision(content) ==
    IF ReturnsOnTopics(has_topics_for_today(content, Today))
    THEN Decision(FALSE, "has_topics")
    ELSE DecisionAfterLoop(TRUE)

InitLocator ==
    /\ doc_content \in Contents
    /\ locator = NotScanned
    /\ doc_decision = NoResult
    /\ inserted = NoInsert
    /\ variant = <<>>
    /\ skipped = 0
    /\ scan_date = Today
    /\ calendar = NoOccurrences
    /\ RunIdle
    /\ ResolverIdle
    /\ DecideIdle
    /\ MainIdle
    /\ ListIdle
    /\ AnnotateIdle

Scan ==
    /\ locator = NotScanned
    /\ locator' = LocatorAfter(doc_content, Len(doc_content))
    /\ doc_decision' = SingleDocDecision(doc_content)
    /\ UNCHANGED << doc_content, inserted, variant, skipped, scan_date,
                    run_vars, annotate_vars, resolver_vars, decide_vars, main_vars, list_vars >>

\* the locator is past the Topics header and has not decided yet
CheckingContentAt(content, n) ==
    LET st == LocatorAfter(content, n)
    IN  st.state = STATE_CHECKING_CONTENT /\ st.verdict = "none"

InsertBlanks ==
    /\ locator # NotScanned
    /\ inserted = NoInsert
    /\ \E at \in 1..Len(doc_content), blanks \in SeqsUpTo(BlankBlocks, MaxBlanks) :
         /\ blanks # <<>>
         /\ CheckingContentAt(doc_content, at)
         /\ inserted' = [at |-> at, blanks |-> blanks]
         /\ variant' = SubSeq(doc_content, 1, at) \o blanks
                           \o SubSeq(doc_content, at + 1, Len(doc_content))
    /\ UNCHANGED << doc_content, locator, doc_decision, skipped, scan_date,
                    run_vars, annotate_vars, resolver_vars, decide_vars, main_vars, list_vars >>

NextLocator == Scan \/ InsertBlanks

SpecLocator == InitLocator /\ [][NextLocator]_vars

(***************************************************************************)
(* docs_service.py: one pass of the loop of has_topics_for_today, element  *)
(* by element. doc_content holds the elements read so far and locator the  *)
(* state of the loop after them; before them the loop went over skipped    *)
(* elements without finding the heading of the day.                        *)
(***************************************************************************)
Mar5 == <<"Mar", " ", "5", ",", " ", "2026">>
Mar05 == <<"Mar", " ", "05", ",", " ", "2026">>
March5 == <<"March", " ", "5", ",", " ", "2026">>

\* the days a pass is made for
PassDates == { Today, [year |-> 2026, month |-> 3, day |-> 5] }

\* the elements a pass can meet
PassBlocks ==
    { Heading(Feb26 \o Title, "HEADING_2"),
      Heading(Feb18 \o Title, "HEADING_2"),
      Heading(Mar5 \o Title, "HEADING_2"),
      Heading(Mar05 \o Title, "HEADING_2"),
      Heading(March5 \o Title, "HEADING_2"),
      Para(Feb26 \o Title), Para(Mar5 \o Title),
      Heading(<<"Topics">>, "HEADING_1"),
      Heading(<<"Attendees">>, "HEADING_2"),
      Heading(<<"Topics", ":">>, "HEADING_3"),
      Heading(<<"Real topic">>, "HEADING_3"),
      Para(<<"Topic", ":">>),
      Para(<<"TOPICS">>),
      Para(<<"Topics", ":", ":">>),
      Para(<<"Notes">>),
      Para(<<"Notes", ":">>),
      Para(<<"-", " ", "Real topic">>),
      Para(<<>>),
      SectionBreak }

\* the elements gone over before the pass: none, or all but two or all but one of
\* those the loop accepts
SkippedValues == { 0, MAX_CONTENT_ELEMENTS - 2, MAX_CONTENT_ELEMENTS - 1 }

InitPass ==
    /\ doc_content = <<>>
    /\ locator = LocatorInit
    /\ skipped \in SkippedValues
    /\ scan_date \in PassDates
    /\ doc_decision = NoResult
    /\ inserted = NoInsert
    /\ variant = <<>>
    /\ calendar = NoOccurrences
    /\ RunIdle
    /\ ResolverIdle
    /\ DecideIdle
    /\ MainIdle
    /\ ListIdle
    /\ AnnotateIdle

\* one iteration of the loop over content; it stops at return and at break
Feed ==
    /\ locator.verdict = "none"
    /\ Len(doc_content) < MaxElements
    /\ \E element \in PassBlocks :
         /\ doc_content' = Append(doc_content, element)
         /\ locator' = LocatorStep(locator, element, skipped + Len(doc_content) + 1,
                                   build_today_date_prefix(scan_date))
    /\ UNCHANGED << doc_decision, inserted, variant, skipped, scan_date,
                    run_vars, annotate_vars, resolver_vars, decide_vars, main_vars, list_vars >>

NextPass == Feed

SpecPass == InitPass /\ [][NextPass]_vars

(***************************************************************************)
(* extract_doc_ids_from_event on one event, one attachment at a time.      *)
(* SpecResolver draws the attachments of the event from AttachmentCatalog. *)
(***************************************************************************)
ResolverInputs ==
    { [is_list |-> TRUE, items |-> items] : items \in SeqsUpTo(AttachmentCatalog, MaxEntries) }
        \cup { [is_list |-> FALSE, items |-> <<>>] }

InitResolver ==
    /\ event_attachments \in ResolverInputs
    /\ inspected = 0
    /\ found_ids = <<>>
    /\ returned = FALSE
    /\ DecideIdle
    /\ MainIdle
    /\ ListIdle
    /\ calendar = NoOccurrences
    /\ RunIdle
    /\ AnnotateIdle
    /\ LocatorIdle

\* one iteration of the loop over attachments
Inspect ==
    /\ ~returned
    /\ event_attachments.is_list
    /\ inspected < Len(event_attachments.items)
    /\ LET attachment == event_attachments.items[inspected + 1]
       IN  found_ids' = IF AttachmentSkipped(attachment) THEN found_ids
                        ELSE Append(found_ids, attachment.fileUrl.match)
    /\ inspected' = inspected + 1
    /\ UNCHANGED << event_attachments, returned, run_vars, annotate_vars, locator_vars,
                    decide_vars, main_vars, list_vars >>

\* return doc_ids: at once when attachments is no list, else when the loop is over
Return ==
    /\ ~returned
    /\ ~event_attachments.is_list \/ inspected = Len(event_attachments.items)
    /\ returned' = TRUE
    /\ UNCHANGED << event_attachments, inspected, found_ids, run_vars, annotate_vars,
                    locator_vars, decide_vars, main_vars, list_vars >>

NextResolver == Inspect \/ Return

SpecResolver == InitResolver /\ [][NextResolver]_vars

(***************************************************************************)
(* calendar_service.py: get_todays_recurring_events, one iteration of the  *)
(* loop over the pages at a time.  SpecList draws what each list call      *)
(* does; the loop starts at its begin, or after pages that all carried a   *)
(* next-page token and no item the filter keeps.                           *)
(***************************************************************************)
PageItems ==
    [kind : ItemKinds, status : {"confirmed", "tentative", "cancelled"}]

\* what events().list(...).execute() does: answer with a page, or raise
PageOutcomes ==
    { [raises |-> "none", items |-> items, next |-> next] :
        items \in SeqsUpTo(PageItems, MaxPageItems), next \in {"none", "token"} }
        \cup { [raises |-> e, items |-> <<>>, next |-> "none"] :
                 e \in {"HttpError", "HttpLib2Error", "OSError"} }

\* the items of a page the filter keeps, in page order
KeptOfPage(items) == SelectSeq(items, KeptByFilter)

InitList ==
    /\ pages_before \in {0, MAX_PAGES - MaxPagesRead}
    /\ pages_fetched = pages_before
    /\ page_calls = pages_before
    /\ page_token = IF pages_before = 0 THEN "none" ELSE "token"
    /\ collected = <<>>
    /\ list_pc = "loop"
    /\ calendar = NoOccurrences
    /\ RunIdle
    /\ AnnotateIdle
    /\ LocatorIdle
    /\ ResolverIdle
    /\ DecideIdle
    /\ MainIdle

\* a listing goes on past the pages looked at only to reach the page limit
MayCarryToken == pages_fetched + 1 - pages_before < MaxPagesRead
                    \/ pages_before > 0

\* if pages_fetched >= _MAX_PAGES: break, and return events
StopAtLimit ==
    /\ list_pc = "loop"
    /\ PageLimitReached(pages_fetched)
    /\ list_pc' = "returned"
    /\ UNCHANGED << pages_before, pages_fetched, page_calls, page_token, collected,
                    run_vars, annotate_vars, locator_vars, resolver_vars, decide_vars,
                    main_vars >>

\* one iteration of the loop: the list call, the filter, the next-page token
ListPage ==
    /\ list_pc = "loop"
    /\ ~PageLimitReached(pages_fetched)
    /\ page_calls' = page_calls + 1
    /\ \E o \in PageOutcomes :
         /\ o.next = "token" => MayCarryToken
         /\ IF o.raises # "none"
            THEN /\ list_pc' = IF CaughtAsPageFailure(o.raises) THEN "returned" ELSE "raised"
                 /\ UNCHANGED << pages_fetched, page_token, collected >>
            ELSE /\ pages_fetched' = pages_fetched + 1
                 /\ collected' = collected \o KeptOfPage(o.items)
                 /\ page_token' = o.next
                 /\ list_pc' = IF o.next = "none" THEN "returned" ELSE "loop"
    /\ UNCHANGED << pages_before, run_vars, annotate_vars, locator_vars, resolver_vars,
                    decide_vars, main_vars >>

NextList == StopAtLimit \/ ListPage

\* the loop is not held up: an iteration that can be made is made
SpecList == InitList /\ [][NextList]_vars /\ WF_vars(NextList)

(***************************************************************************)
(* auth.py: get_credentials, and main.py: main around it.  SpecMain draws  *)
(* the marker of the last successful run, the files and what the calls to  *)
(* the libraries and the file system do.                                   *)
(***************************************************************************)
\* the file at TOKEN_PATH: absent, or what Credentials.from_authorized_user_file
\* does with it: credentials that are valid, expired with a refresh token, neither,
\* or lacking scopes; ValueError or KeyError on a corrupt file; OSError on a file
\* that cannot be read
TokenKinds ==
    {"absent", "valid", "expired", "stale", "other_scopes", "ValueError", "KeyError",
     "OSError"}

Markers == {"absent", "earlier", "today"}

Envs ==
    [client_file : BOOLEAN, token : TokenKinds, unlink : {"ok", "OSError"},
     refresh : {"ok", "RefreshError", "TransportError"}, flow : {"ok", "raises"},
     save : {"ok", "OSError"}]

InitMain ==
    /\ last_success \in Markers
    /\ env \in Envs
    /\ token_file = env.token
    /\ main_pc = "idle"
    /\ gc_pc = "idle"
    /\ creds = "none"
    /\ flow_runs = 0
    /\ list_calls = 0
    /\ calendar = NoOccurrences
    /\ RunIdle
    /\ AnnotateIdle
    /\ LocatorIdle
    /\ ResolverIdle
    /\ DecideIdle
    /\ ListIdle

\* main up to the call of auth.get_credentials
MainStart ==
    /\ main_pc = "idle"
    /\ main_pc' = "auth"
    /\ gc_pc' = "start"
    /\ UNCHANGED << last_success, env, token_file, creds, flow_runs, list_calls,
                    run_vars, annotate_vars, locator_vars, resolver_vars, decide_vars,
                    list_vars >>

\* if not os.path.exists(CREDENTIALS_PATH): raise FileNotFoundError
CheckClientFile ==
    /\ gc_pc = "start"
    /\ gc_pc' = IF env.client_file THEN "load" ELSE "FileNotFoundError"
    /\ UNCHANGED << last_success, env, token_file, main_pc, creds, flow_runs, list_calls,
                    run_vars, annotate_vars, locator_vars, resolver_vars, decide_vars,
                    list_vars >>

\* except (ValueError, KeyError)
CaughtAsCorrupt(exc) == exc \in {"ValueError", "KeyError"}

\* if os.path.exists(TOKEN_PATH): load the cached token
LoadToken ==
    /\ gc_pc = "load"
    /\ IF token_file = "absent"
       THEN /\ creds' = "none"
            /\ gc_pc' = "loaded"
            /\ UNCHANGED token_file
       ELSE IF token_file \in {"valid", "expired", "stale"}
       THEN /\ creds' = token_file
            /\ gc_pc' = "loaded"
            /\ UNCHANGED token_file
       ELSE IF token_file = "other_scopes"
       THEN /\ creds' = "none"
            /\ gc_pc' = "loaded"
            /\ UNCHANGED token_file
       ELSE IF CaughtAsCorrupt(token_file)
       THEN /\ creds' = "none"
            /\ gc_pc' = "loaded"
            /\ token_file' = IF env.unlink = "ok" THEN "absent" ELSE token_file
       ELSE /\ gc_pc' = token_file
            /\ UNCHANGED << creds, token_file >>
    /\ UNCHANGED << last_success, env, main_pc, flow_runs, list_calls,
                    run_vars, annotate_vars, locator_vars, resolver_vars, decide_vars,
                    list_vars >>

\* if creds and creds.valid: return creds
ReturnCached ==
    /\ gc_pc = "loaded"
    /\ creds = "valid"
    /\ gc_pc' = "returned"
    /\ UNCHANGED << last_success, env, token_file, main_pc, creds, flow_runs, list_calls,
                    run_vars, annotate_vars, locator_vars, resolver_vars, decide_vars,
                    list_vars >>

\* if creds and creds.expired and creds.refresh_token: creds.refresh(Request())
Refresh ==
    /\ gc_pc = "loaded"
    /\ creds # "valid"
    /\ IF creds = "expired"
       THEN IF env.refresh = "ok" THEN creds' = "refreshed" /\ gc_pc' = "flow"
            ELSE IF env.refresh = "RefreshError" THEN creds' = "none" /\ gc_pc' = "flow"
            ELSE creds' = creds /\ gc_pc' = "TransportError"
       ELSE creds' = creds /\ gc_pc' = "flow"
    /\ UNCHANGED << last_success, env, token_file, main_pc, flow_runs, list_calls,
                    run_vars, annotate_vars, locator_vars, resolver_vars, decide_vars,
                    list_vars >>

\* if not creds: run the browser flow
RunFlow ==
    /\ gc_pc = "flow"
    /\ IF creds = "none"
       THEN /\ flow_runs' = flow_runs + 1
            /\ IF env.flow = "ok" THEN creds' = "new" /\ gc_pc' = "save"
               ELSE creds' = creds /\ gc_pc' = "FlowError"
       ELSE /\ gc_pc' = "save"
            /\ UNCHANGED << creds, flow_runs >>
    /\ UNCHANGED << last_success, env, token_file, main_pc, list_calls,
                    run_vars, annotate_vars, locator_vars, resolver_vars, decide_vars,
                    list_vars >>

\* _save_token(creds); return creds
SaveToken ==
    /\ gc_pc = "save"
    /\ IF env.save = "ok"
       THEN token_file' = creds /\ gc_pc' = "returned"
       ELSE token_file' = token_file /\ gc_pc' = "SaveError"
    /\ UNCHANGED << last_success, env, main_pc, creds, flow_runs, list_calls,
                    run_vars, annotate_vars, locator_vars, resolver_vars, decide_vars,
                    list_vars >>

\* get_credentials is over: it returned or raised
GcOver == gc_pc \notin {"idle", "start", "load", "loaded", "flow", "save"}

\* except FileNotFoundError, except Exception: sys.exit(1)
MainExits ==
    /\ main_pc = "auth"
    /\ GcOver
    /\ gc_pc # "returned"
    /\ main_pc' = "exit_1"
    /\ UNCHANGED << last_success, env, token_file, gc_pc, creds, flow_runs, list_calls,
                    run_vars, annotate_vars, locator_vars, resolver_vars, decide_vars,
                    list_vars >>

\* build_services, get_user_timezone, today, get_todays_recurring_events
MainLists ==
    /\ main_pc = "auth"
    /\ gc_pc = "returned"
    /\ list_calls' = list_calls + 1
    /\ main_pc' = "listed"
    /\ UNCHANGED << last_success, env, token_file, gc_pc, creds, flow_runs,
                    run_vars, annotate_vars, locator_vars, resolver_vars, decide_vars,
                    list_vars >>

\* the loop over the events, then "recurring-meeting-optimizer finished."
MainFinishes ==
    /\ main_pc = "listed"
    /\ main_pc' = "finished"
    /\ UNCHANGED << last_success, env, token_file, gc_pc, creds, flow_runs, list_calls,
                    run_vars, annotate_vars, locator_vars, resolver_vars, decide_vars,
                    list_vars >>

NextMain ==
    \/ MainStart
    \/ CheckClientFile
    \/ LoadToken
    \/ ReturnCached
    \/ Refresh
    \/ RunFlow
    \/ SaveToken
    \/ MainExits
    \/ MainLists
    \/ MainFinishes

SpecMain == InitMain /\ [][NextMain]_vars

(***************************************************************************)
(* should_cancel_event on one event, one document at a time.  SpecDecide   *)
(* draws what the fetch of each document does from DecideOutcomes: those   *)
(* of FetchOutcomes, and answers whose body.content holds the elements of  *)
(* a document in a value that is no list.                                  *)
(***************************************************************************)
DecideOutcomes ==
    FetchOutcomes
        \cup { [raises |-> "none", response |-> [shape |-> "content_not_list", content |-> d]] :
                 d \in DocCatalog }

\* should_cancel_event was left by an exception
Escaped == [cancel |-> FALSE, reason |-> "exception"]

InitDecide ==
    /\ responses \in SeqsUpTo(DecideOutcomes, MaxDocs)
    /\ tried = 0
    /\ read_any = FALSE
    /\ event_decision = NoResult
    /\ calendar = NoOccurrences
    /\ RunIdle
    /\ AnnotateIdle
    /\ LocatorIdle
    /\ ResolverIdle
    /\ MainIdle
    /\ ListIdle

\* if not doc_ids: return False, 'no_doc'
ReturnNoDoc ==
    /\ event_decision = NoResult
    /\ NoDocIds(responses)
    /\ event_decision' = Decision(FALSE, "no_doc")
    /\ UNCHANGED << responses, tried, read_any, run_vars, annotate_vars, locator_vars,
                    resolver_vars, main_vars, list_vars >>

\* one iteration of the loop over doc_ids
TryDoc ==
    /\ event_decision = NoResult
    /\ tried < Len(responses)
    /\ tried' = tried + 1
    /\ LET o == responses[tried + 1]
       IN  IF o.raises # "none"
           THEN /\ event_decision' = IF CaughtAsDocError(o.raises) THEN NoResult ELSE Escaped
                /\ UNCHANGED read_any
           ELSE /\ read_any' = TRUE
                /\ event_decision' =
                     IF ReturnsOnTopics(has_topics_for_today(fetch_doc_content(o.response),
                                                             Today))
                     THEN Decision(FALSE, "has_topics")
                     ELSE NoResult
    /\ UNCHANGED << responses, run_vars, annotate_vars, locator_vars, resolver_vars,
                    main_vars, list_vars >>

\* the return after the loop over doc_ids
ReturnAfterLoop ==
    /\ event_decision = NoResult
    /\ ~NoDocIds(responses)
    /\ tried = Len(responses)
    /\ event_decision' = DecisionAfterLoop(read_any)
    /\ UNCHANGED << responses, tried, read_any, run_vars, annotate_vars, locator_vars,
                    resolver_vars, main_vars, list_vars >>

NextDecide == ReturnNoDoc \/ TryDoc \/ ReturnAfterLoop

SpecDecide == InitDecide /\ [][NextDecide]_vars

(***************************************************************************)
(* Properties of the cancellation decision and of the occurrence           *)
(* canceller.                                                              *)
(***************************************************************************)
FetchFailures == {"HttpError", "HttpLib2Error"}

\* should_cancel_event is over for the current event: it returned or raised
DecisionOver == pc \in {"decided", "delete", "returned", "raised"}

\* every document of the event has been tried
AllTried == Len(fetched) = Len(doc_ids)

\* the occurrence on the calendar is as the list call reported it
Untouched(e) ==
    calendar[e.id] = [kind |-> "recurring_timed", status |-> "confirmed",
                      description |-> e.description]

\* C1: fail-safe. Once every document of an event with at least one resolvable
\* doc id has been tried and every fetch failed, should_cancel_event has returned
\* (False, 'doc_error'), and no patch or delete call is issued for the event.
C1_FailSafe ==
    (/\ DecisionOver
     /\ doc_ids # <<>>
     /\ AllTried
     /\ \A i \in 1..Len(fetched) : fetched[i] \in FetchFailures)
        => (result = Decision(FALSE, "doc_error") /\ raised = "none" /\ calls = <<>>)

\* C2: every completed call of should_cancel_event yields one of the four outcomes
\* (False,'no_doc'), (False,'has_topics'), (True,'no_topics'), (False,'doc_error'),
\* and the cancel flag is True exactly when the reason is 'no_topics'.
C2_FourOutcomes ==
    /\ pc \in {"decided", "delete", "returned"} => result # NoResult
    /\ result # NoResult =>
         /\ result \in { Decision(FALSE, "no_doc"), Decision(FALSE, "has_topics"),
                         Decision(TRUE, "no_topics"), Decision(FALSE, "doc_error") }
         /\ result.cancel <=> result.reason = "no_topics"

\* C2 witness: a call that completed with the cancel outcome
C2_Witness == pc = "decided" /\ result = Decision(TRUE, "no_topics")

\* C3: for an event decided keep:no_doc, keep:has_topics or keep:doc_error,
\* process_event issues no patch and no delete call and the occurrence on the
\* calendar stays as it was.
C3_KeepIssuesNoCall ==
    (result # NoResult /\ ~result.cancel)
        => (calls = <<>> /\ pc \in {"decided", "returned"} /\ Untouched(Event))

\* C3 witness: process_event returned on a keep decision of a run that is not a dry run
C3_Witness ==
    /\ pc = "returned"
    /\ ~dry_run
    /\ result \in { Decision(FALSE, "no_doc"), Decision(FALSE, "has_topics"),
                    Decision(FALSE, "doc_error") }

\* C4: in dry-run mode no step issues a patch or a delete call and no step changes
\* the calendar, whatever the decision is.
C4_DryRunChangesNothing == [][dry_run' => (calendar' = calendar /\ calls' = <<>>)]_vars

\* C4 witness: process_event returned in a dry run on a cancel decision
C4_Witness == pc = "returned" /\ dry_run /\ result = Decision(TRUE, "no_topics")

\* C5: short-circuit. When a document is fetched successfully and yields topics,
\* every earlier document having failed to fetch or yielded no topics, the decision
\* is keep:has_topics, whatever documents come later in the list.
C5_ShortCircuit ==
    (/\ fetched # <<>>
     /\ fetched[Len(fetched)] = "topics_present"
     /\ \A i \in 1..(Len(fetched) - 1) : fetched[i] \in FetchFailures \cup {"no_topics"})
        => (result = Decision(FALSE, "has_topics") /\ pc \in {"decided", "returned"})

\* C5 witness: topics found in the first document while a later one is never fetched
C5_Witness ==
    /\ pc = "returned"
    /\ fetched = <<"topics_present">>
    /\ Len(doc_ids) > 1

\* C6: a fetch failure on one document does not abort the event; the documents
\* after it are still fetched.
C6_FailureDoesNotAbort ==
    (fetched # <<>> /\ fetched[Len(fetched)] \in FetchFailures)
        => /\ raised = "none"
           /\ Len(fetched) < Len(doc_ids) => pc = "fetch"

\* C7: after all documents have been tried, one at least fetched successfully and
\* none with topics, the decision is cancel:no_topics, also when other documents
\* failed to fetch.
C7_NoTopicsCancels ==
    (/\ DecisionOver
     /\ AllTried
     /\ \E i \in 1..Len(fetched) : fetched[i] = "no_topics"
     /\ \A i \in 1..Len(fetched) : fetched[i] # "topics_present")
        => result = Decision(TRUE, "no_topics")

\* C8: an event with no resolvable doc id (no attachments, or only attachments the
\* resolver skips) is decided keep:no_doc and no document is fetched for it.
C8_NoDocKeeps ==
    (pc \in {"fetch", "decided", "delete", "returned", "raised"} /\ doc_ids = <<>>)
        => (result = Decision(FALSE, "no_doc") /\ fetched = <<>> /\ pc # "fetch")

\* C8 witness: an event whose attachments are all skipped by the resolver
C8_Witness ==
    /\ pc = "decided"
    /\ attachments.is_list
    /\ attachments.items # <<>>
    /\ doc_ids = <<>>

\* C9: a fetch that fails with a transport error (httplib2.HttpLib2Error) counts as
\* a failed document: should_cancel_event does not raise and, for an only document,
\* returns (False, 'doc_error').
C9_TransportErrorIsDocError ==
    (Len(doc_ids) = 1 /\ fetched = <<"HttpLib2Error">>)
        => (raised = "none" /\ (DecisionOver => result = Decision(FALSE, "doc_error")))

\* the i-th calendar mutation of the event is the delete call
IsRemove(i) == calls[i] \in {"delete", "delete_failed"}

\* C10: annotate, then remove. The delete call is issued only after the patch call
\* succeeded, or was skipped because the description already started with the note;
\* whenever delete is issued the description of the occurrence starts with the note.
C10_AnnotateThenRemove ==
    /\ pc = "delete" =>
         /\ calls = <<"patch">> \/ (calls = <<>> /\ StartsWith(Event.description, CANCELLATION_NOTE))
         /\ StartsWith(calendar[Event.id].description, CANCELLATION_NOTE)
    /\ \A i \in 1..Len(calls) : IsRemove(i) =>
         /\ i = Len(calls)
         /\ (i = 2 /\ calls[1] = "patch")
               \/ (i = 1 /\ StartsWith(Event.description, CANCELLATION_NOTE))
         /\ StartsWith(calendar[Event.id].description, CANCELLATION_NOTE)

\* C10 witness: the delete call issued right after a successful patch call
C10_Witness == calls = <<"patch", "delete">>

\* cancel_event_occurrence is over for the current event: it returned or raised
CancelOver == pc \in {"returned", "raised"} /\ CallsCanceller(result, dry_run)

\* C11: idempotency guard. When the description of the event already starts with
\* the cancellation note, cancel_event_occurrence issues no patch call and exactly
\* one delete call.
C11_GuardSkipsPatch ==
    (CallsCanceller(result, dry_run) /\ StartsWith(Event.description, CANCELLATION_NOTE))
        => /\ pc \in {"decided", "delete"} => calls = <<>>
           /\ CancelOver => (Len(calls) = 1 /\ IsRemove(1))

\* C11 witness: cancel_event_occurrence returned for an event whose description
\* carried the note already
C11_Witness ==
    /\ pc = "returned"
    /\ StartsWith(Event.description, CANCELLATION_NOTE)
    /\ calls = <<"delete">>

\* the number of places of a description at which the note stands
NoteCount(description) ==
    Cardinality({ i \in 1..Len(description) :
                    /\ i + Len(CANCELLATION_NOTE) - 1 <= Len(description)
                    /\ SubSeq(description, i, i + Len(CANCELLATION_NOTE) - 1)
                          = CANCELLATION_NOTE })

\* the listed description is one an earlier patch call wrote
AnnotatedEarlier(e) ==
    \E d \in InitDescriptions :
        /\ NeedsPatch(CANCELLATION_NOTE, d)
        /\ e.description = NewDescription(CANCELLATION_NOTE, d)

\* C12: crash-safe resume. A run that decides to cancel an occurrence whose
\* description an earlier attempt annotated (the removal having failed) issues no
\* patch call, leaves the description as it is and issues the delete call again;
\* no description on the calendar ever carries the note more than once.
C12_ResumeRetriesRemoval ==
    /\ \A i \in EventIds : NoteCount(calendar[i].description) <= 1
    /\ (CancelOver /\ AnnotatedEarlier(Event))
          => /\ Len(calls) = 1 /\ IsRemove(1)
             /\ calendar[Event.id].description = Event.description

\* C12 witness: the removal retried and done for an occurrence that the failed
\* attempt of an earlier run left with the note as its whole description
C12_Witness ==
    /\ pc = "returned"
    /\ Event.description = CANCELLATION_NOTE
    /\ calls = <<"delete">>
    /\ calendar[Event.id].status = "cancelled"

\* the calendar mutations tried for the current event
CallsTried == { calls[i] : i \in 1..Len(calls) }

\* C15: if the patch call fails, the error leaves cancel_event_occurrence, no
\* delete call is issued, and the occurrence is left as it was: same description,
\* still confirmed.
C15_PatchFailureLeavesEvent ==
    "patch_failed" \in CallsTried
        => /\ pc = "raised" /\ raised = "patch_error"
           /\ calls = <<"patch_failed">>
           /\ Untouched(Event)

\* C15 witness: the patch call failed on an occurrence with a description
C15_Witness ==
    /\ calls = <<"patch_failed">>
    /\ raised = "patch_error"
    /\ Event.description = <<"Weekly sync">>

\* C16: if the patch call succeeds and the delete call fails, a CRITICAL record is
\* logged and the error is re-raised to the caller of process_event; no CRITICAL
\* record is logged when the delete call succeeds or when the patch call fails.
C16_CriticalOnPartialCancel ==
    /\ calls = <<"patch", "delete_failed">>
         => (critical /\ raised = "delete_error" /\ pc = "raised")
    /\ ("delete" \in CallsTried \/ "patch_failed" \in CallsTried) => ~critical

\* C16 witness: the delete call failed after the patch call had succeeded
C16_Witness ==
    /\ calls = <<"patch", "delete_failed">>
    /\ critical
    /\ calendar[Event.id].status = "confirmed"
    /\ calendar[Event.id].description # Event.description

\* the ids of the first k events of the run
FirstIds(k) == [i \in 1..k |-> events[i].id]

\* how many events of the run process_event has been called with
Taken == IF pc \in {"idle", "loop"} THEN idx - 1 ELSE idx

\* C17: per-event failure isolation. The events process_event has been called with
\* are the first events of the list, each once and in list order, and when the run
\* is over they are all the events of the list; the step after process_event raised
\* is the next iteration of the same loop over the same list.
C17_FailureIsolation ==
    /\ [](/\ processed = FirstIds(Taken)
          /\ (pc = "idle" /\ report.logged) => Taken = Len(events))
    /\ [][pc = "raised" => (pc' = "loop" /\ idx' = idx + 1 /\ events' = events)]_vars

\* C17 witness: process_event returned for the second event of a run in which it
\* raised for the first
C17_Witness ==
    /\ pc = "returned"
    /\ errors_logged = 1
    /\ Len(processed) = 2

\* C18 as stated: the last record of a run carries the number of events whose
\* processing raised.
C18_ReportsFailureCount ==
    (pc = "idle" /\ report.logged) => report.counts = << errors_logged >>

\* the ids of the events of the list, in list order
ListedIds == [k \in 1..Len(events) |-> events[k].id]

\* the item is a recurrence instance with a start time that is not cancelled
Eligible(item) == item.kind = "recurring_timed" /\ item.status = "confirmed"

\* C32: get_todays_recurring_events returns, in the order of the list call, exactly
\* the items that are recurrence instances with a start time and not cancelled, as
\* the calendar has them at that time. process_event is called with such items
\* only, and an item that is one-off, all-day or cancelled is never changed.
C32_OnlyEligibleListed ==
    /\ [][(pc = "idle" /\ pc' = "loop") =>
            /\ \A i \in EventIds :
                 (\E k \in 1..Len(events') : events'[k].id = i) <=> Eligible(calendar[i])
            /\ \A k \in 1..Len(events') :
                 /\ events'[k].description = calendar[events'[k].id].description
                 /\ \A j \in 1..(k - 1) : events'[j].id < events'[k].id]_vars
    /\ [][processed' # processed =>
            /\ Len(processed') > 0 => Eligible(calendar[processed'[Len(processed')]])
            /\ \A k \in 1..Len(processed') :
                 calendar[processed'[k]].kind = "recurring_timed"]_vars
    /\ [][\A i \in EventIds : ~Eligible(calendar[i]) => calendar'[i] = calendar[i]]_vars

\* C32 witness: a run that started on a day with an occurrence cancelled before
\* and an eligible one, and lists the eligible one only
C32_Witness ==
    /\ pc = "loop"
    /\ idx = 1
    /\ calendar[1].kind = "recurring_timed"
    /\ calendar[1].status = "cancelled"
    /\ Eligible(calendar[2])
    /\ ListedIds = << 2 >>

\* the occurrence has been cancelled by a run: annotated, then removed
Cancelled(i) ==
    /\ calendar[i].status = "cancelled"
    /\ StartsWith(calendar[i].description, CANCELLATION_NOTE)

\* C33: once a run has cancelled an occurrence, the occurrence stays cancelled with
\* the description it has, a run that starts later does not get it from
\* get_todays_recurring_events, and no patch or delete call is issued for it.
C33_CancelledStaysCancelled ==
    /\ [](\A i \in EventIds : calendar[i].status = "cancelled" => Cancelled(i))
    /\ [][\A i \in EventIds : Cancelled(i) =>
            /\ calendar'[i] = calendar[i]
            /\ (pc = "idle" /\ pc' = "loop") => \A k \in 1..Len(events') : events'[k].id # i
            /\ (Len(calls') > Len(calls) /\ pc \in {"decided", "delete"}) => Event.id # i]_vars

\* C33 witness: a later run is over, and the occurrence an earlier run cancelled
\* was not among its events
C33_Witness ==
    /\ pc = "idle"
    /\ report.logged
    /\ Cancelled(1)
    /\ Eligible(calendar[2])
    /\ ListedIds = << 2 >>
    /\ processed = << 2 >>

(***************************************************************************)
(* Properties of the annotate step.                                        *)
(***************************************************************************)
\* C13: the annotate step is idempotent. For every description, applying the step
\* (prepend the note unless the description starts with it) a second time leaves
\* the description the first application wrote.
C13_AnnotateIdempotent == \A i \in 2..Len(written) : written[i] = written[1]

\* C13 witness: the step applied twice to a description that needed the note
C13_Witness ==
    /\ Len(written) = 2
    /\ original_desc = <<"Weekly sync">>
    /\ written[1] # original_desc

\* C14 as stated: whenever the description does not start with the note, the step
\* writes the note, a blank line and the existing description unchanged.
C14_NoteBlankLineVerbatim ==
    (written # <<>> /\ NeedsPatch(CANCELLATION_NOTE, original_desc))
        => written[1] = CANCELLATION_NOTE \o <<"\n", "\n">> \o original_desc

\* C14 amended: whenever the description does not start with the note, the step
\* writes the note, a blank line and the existing description without its trailing
\* whitespace; when nothing is left of the description it writes the note alone.
C14_NoteThenRStripped ==
    (written # <<>> /\ NeedsPatch(CANCELLATION_NOTE, original_desc))
        => written[1] = IF RStrip(original_desc) = <<>> THEN CANCELLATION_NOTE
                        ELSE CANCELLATION_NOTE \o <<"\n", "\n">> \o RStrip(original_desc)

\* C14 witness: the step applied to a description with whitespace at both ends
C14_Witness ==
    /\ written # <<>>
    /\ original_desc = <<" ", "Weekly sync", "\n">>

(***************************************************************************)
(* Properties of the locator.                                              *)
(***************************************************************************)
\* C19 as stated: putting any number of elements whose text is empty or only
\* whitespace between the Topics header and the content under it leaves the
\* verdict of has_topics_for_today as it was.
C19_BlankInsensitive ==
    inserted # NoInsert
        => has_topics_for_today(variant, Today) = has_topics_for_today(doc_content, Today)

\* the inserted element is a heading senior to today's date heading
SeniorHeading(block) ==
    heading_level(block) < LocatorAfter(doc_content, inserted.at).date_heading_level

\* C19 amended: putting any number of elements whose text is empty or only
\* whitespace, none of them a heading senior to today's date heading, between the
\* Topics header and the content under it leaves the verdict as it was.
C19_BlankInsensitiveBelowSenior ==
    (/\ inserted # NoInsert
     /\ \A i \in 1..Len(inserted.blanks) : ~SeniorHeading(inserted.blanks[i]))
        => has_topics_for_today(variant, Today) = has_topics_for_today(doc_content, Today)

\* C19 witness: an empty and a whitespace-only paragraph put between the Topics
\* header and the topic of a document with topics
C19_Witness ==
    /\ inserted.blanks = << Para(<<>>), Para(<<" ", " ">>) >>
    /\ doc_content[inserted.at] = Para(<<"Topic", ":">>)
    /\ inserted.at < Len(doc_content)
    /\ doc_content[inserted.at + 1] = Para(<<"-", " ", "Real topic">>)
    /\ has_topics_for_today(variant, Today)

\* C20: when the elements are exhausted before the locator has decided, in
\* whichever of its three states, has_topics_for_today returns False, and an event
\* whose only document it is, fetched successfully, is decided cancel:no_topics.
C20_ExhaustedIsNoTopics ==
    (locator # NotScanned /\ locator.verdict = "none")
        => /\ locator.state \in { STATE_SEARCHING_DATE, STATE_SEARCHING_TOPICS,
                                 STATE_CHECKING_CONTENT }
           /\ ~has_topics_for_today(doc_content, Today)
           /\ doc_decision = Decision(TRUE, "no_topics")

\* C20 witness: a document that ends under today's heading with no Topics header
C20_Witness ==
    /\ locator.verdict = "none"
    /\ locator.state = STATE_SEARCHING_TOPICS
    /\ doc_decision = Decision(TRUE, "no_topics")

\* the loop with the state and the verdict the first k elements left it in
DecidedAt(k) ==
    /\ LocatorAfter(doc_content, k - 1).verdict = "none"
    /\ LocatorStep(LocatorAfter(doc_content, k - 1), doc_content[k], k,
                   build_today_date_prefix(Today)).verdict # "none"

\* C26: the first element on which the loop returns decides. The verdict on a
\* document is the one returned on that element, whatever elements follow it.
C26_FirstDecisiveWins ==
    locator # NotScanned =>
        \A k \in 1..Len(doc_content) :
            DecidedAt(k) =>
                locator = LocatorStep(LocatorAfter(doc_content, k - 1), doc_content[k], k,
                                      build_today_date_prefix(Today))

\* C26 witness: a topic under today's Topics header, followed by the heading of an
\* older day
C26_Witness ==
    /\ doc_content = << Heading(Feb26 \o Title, "HEADING_2"), Para(<<"Topic", ":">>),
                        Para(<<"-", " ", "Real topic">>),
                        Heading(Feb18 \o Title, "HEADING_2") >>
    /\ locator.verdict = "found"
    /\ doc_decision = Decision(FALSE, "has_topics")

(***************************************************************************)
(* Properties of one pass of the locator.                                  *)
(***************************************************************************)
\* the step is an iteration of the loop
Reads == doc_content' # doc_content

\* the element the iteration reads
Fed == doc_content'[Len(doc_content')]

\* the loop is under today's heading and has not returned
InSection ==
    /\ locator.verdict = "none"
    /\ locator.state \in {STATE_SEARCHING_TOPICS, STATE_CHECKING_CONTENT}

IsHeading(element) == element.paragraph /\ heading_level(element) < 99

\* a Topics header with a topic under it, and a topic alone
TopicsTails ==
    { << Para(<<"Topic", ":">>), Para(<<"-", " ", "Real topic">>) >>,
      << Para(<<"-", " ", "Real topic">>) >> }

\* C21: under today's heading, before and after the Topics header, a heading of
\* the rank of today's heading whose text matches the date pattern ends the pass
\* with "not found"; a Topics header or a topic that comes after it does not make
\* the document one with topics.
C21_NextDateEndsSection ==
    [][(/\ Reads
        /\ InSection
        /\ IsHeading(Fed)
        /\ heading_level(Fed) = locator.date_heading_level
        /\ DATE_PREFIX_RE_match(get_paragraph_text(Fed)))
          => /\ locator'.verdict = "not_found"
             /\ \A tail \in TopicsTails :
                  ~has_topics_for_today(doc_content' \o tail, scan_date)]_vars

\* C21 witness: the heading of an older day read right after the Topics header
C21_Witness ==
    /\ skipped = 0
    /\ scan_date = Today
    /\ doc_content = << Heading(Feb26 \o Title, "HEADING_2"), Para(<<"Topic", ":">>),
                        Heading(Feb18 \o Title, "HEADING_2") >>
    /\ locator.verdict = "not_found"

\* C22: under today's heading, before and after the Topics header, a heading
\* senior to today's heading ends the pass with "not found" whatever its text: it
\* is not taken for the Topics header, for a terminator or for a topic.
C22_SeniorHeadingEndsSection ==
    [][(/\ Reads
        /\ InSection
        /\ IsHeading(Fed)
        /\ heading_level(Fed) < locator.date_heading_level)
          => /\ locator'.verdict = "not_found"
             /\ locator'.state = locator.state]_vars

\* C22 witness: a senior heading that reads "Topics", met before the Topics header
C22_Witness ==
    /\ skipped = 0
    /\ Len(doc_content) = 2
    /\ doc_content[2] = Heading(<<"Topics">>, "HEADING_1")
    /\ locator.state = STATE_SEARCHING_TOPICS
    /\ locator.verdict = "not_found"

\* the step is an iteration that gets past the element limit test
Examines == Reads /\ ~LimitReached(skipped + Len(doc_content'))

\* C23: before the Topics header, a heading of the rank of today's heading whose
\* text does not match the date pattern, and a heading junior to today's heading,
\* do not end the pass; a Topics header with a topic under it that comes next
\* makes the document one with topics.
C23_OtherHeadingsContinue ==
    [][(/\ Examines
        /\ locator.verdict = "none"
        /\ locator.state = STATE_SEARCHING_TOPICS
        /\ IsHeading(Fed)
        /\ \/ heading_level(Fed) > locator.date_heading_level
           \/ /\ heading_level(Fed) = locator.date_heading_level
              /\ ~DATE_PREFIX_RE_match(get_paragraph_text(Fed)))
          => /\ locator'.verdict = "none"
             /\ has_topics_for_today(
                    doc_content' \o << Para(<<"Topic", ":">>), Para(<<"-", " ", "Real topic">>) >>,
                    scan_date)]_vars

\* C23 witness: an "Attendees" heading of the rank of today's heading read right
\* after today's heading
C23_Witness ==
    /\ skipped = 0
    /\ scan_date = Today
    /\ doc_content = << Heading(Feb26 \o Title, "HEADING_2"),
                        Heading(<<"Attendees">>, "HEADING_2") >>
    /\ locator.state = STATE_SEARCHING_TOPICS
    /\ locator.verdict = "none"

\* a text without one trailing colon, if it has one
StripOneColon(text) ==
    IF text # <<>> /\ text[Len(text)] = ":" THEN SubSeq(text, 1, Len(text) - 1) ELSE text

\* the element is a heading that leaves today's section
EndsSection(element) ==
    /\ IsHeading(element)
    /\ LeavesSection(locator, heading_level(element), get_paragraph_text(element))

\* C24 as stated: before the Topics header, an element that does not leave the
\* section moves the loop to CHECKING_CONTENT exactly when its text, lower-cased
\* and without one trailing colon, is "topic" or "topics", heading or not.
C24_TopicsHeaderMatch ==
    [][(/\ Examines
        /\ locator.verdict = "none"
        /\ locator.state = STATE_SEARCHING_TOPICS
        /\ Fed.paragraph
        /\ ~EndsSection(Fed))
          => (locator'.state = STATE_CHECKING_CONTENT
                <=> StripOneColon(Lower(get_paragraph_text(Fed)))
                       \in { <<"topics">>, <<"topic">> })]_vars

\* the names that end the Topics section
TerminatorNames ==
    { <<"notes">>, <<"action items">>, <<"action item">>, <<"next steps">>,
      <<"next step">>, <<"attendees">>, <<"attendees", ":">>, <<"agenda">>,
      <<"resources">>, <<"follow-up">>, <<"follow up">> }

\* what the terminator test and the content test make of a text
TerminatorOrContent(text, verdict) ==
    IF Lower(text) \in TerminatorNames THEN verdict = "not_found"
    ELSE text # <<>> => verdict = "found"

\* C25 as stated: after the Topics header, an element whose text is, lower-cased,
\* one of the terminator names ends the pass with "not found", heading or not;
\* any other text that is not empty ends it with "found".
C25_TerminatorOrContent ==
    [][(/\ Examines
        /\ locator.verdict = "none"
        /\ locator.state = STATE_CHECKING_CONTENT
        /\ Fed.paragraph)
          => TerminatorOrContent(get_paragraph_text(Fed), locator'.verdict)]_vars

\* C25 amended: after the Topics header, on an element that is not a heading
\* ending today's section, a text that is, lower-cased, one of the terminator
\* names ends the pass with "not found", heading or not; any other text that is
\* not empty ends it with "found".
C25_TerminatorOrContentInSection ==
    [][(/\ Examines
        /\ locator.verdict = "none"
        /\ locator.state = STATE_CHECKING_CONTENT
        /\ Fed.paragraph
        /\ ~EndsSection(Fed))
          => TerminatorOrContent(get_paragraph_text(Fed), locator'.verdict)]_vars

\* C25 witness: "Notes:" read after the Topics header counts as a topic
C25_Witness ==
    /\ skipped = 0
    /\ scan_date = Today
    /\ doc_content = << Heading(Feb26 \o Title, "HEADING_2"), Para(<<"Topic", ":">>),
                        Para(<<"Notes", ":">>) >>
    /\ locator.verdict = "found"

\* the elements the loop has taken from the document, counted as
\* elements_processed counts them
Taken_Elements == skipped + Len(doc_content)

\* C27: at most MAX_CONTENT_ELEMENTS elements are examined, elements without a
\* paragraph counted. The element taken after them is not examined, whatever it
\* is: the state stays and the verdict is no topics; nothing is taken after it.
C27_ElementLimit ==
    /\ [](Taken_Elements <= MAX_CONTENT_ELEMENTS + 1)
    /\ [](Taken_Elements > MAX_CONTENT_ELEMENTS => locator.verdict = "not_found")
    /\ [][Reads /\ skipped + Len(doc_content') > MAX_CONTENT_ELEMENTS =>
              /\ locator'.state = locator.state
              /\ locator'.date_heading_level = locator.date_heading_level
              /\ locator'.verdict = "not_found"]_vars

\* C27 witness: today's heading and its Topics header are the last two elements
\* within the limit, and the topic under them comes after it
C27_Witness ==
    /\ skipped = MAX_CONTENT_ELEMENTS - 2
    /\ scan_date = Today
    /\ doc_content = << Heading(Feb26 \o Title, "HEADING_2"), Para(<<"Topic", ":">>),
                        Para(<<"-", " ", "Real topic">>) >>
    /\ locator.state = STATE_CHECKING_CONTENT
    /\ locator.verdict = "not_found"

\* the day the pass is made for, as a heading of the document writes it
LiteralPrefix == IF scan_date = Today THEN Feb26 ELSE Mar5

\* C30: in SEARCHING_DATE the pass advances only on a heading whose text starts
\* with the day written as three-letter month, unpadded day and four-digit year,
\* and takes the rank of that heading; a paragraph with that text, a heading with
\* the day in another form and a heading of another day leave the state as it is.
C30_LiteralPrefixOnly ==
    [][(/\ Examines
        /\ locator.verdict = "none"
        /\ locator.state = STATE_SEARCHING_DATE)
          => IF IsHeading(Fed) /\ StartsWith(get_paragraph_text(Fed), LiteralPrefix)
             THEN /\ locator'.state = STATE_SEARCHING_TOPICS
                  /\ locator'.date_heading_level = heading_level(Fed)
                  /\ locator'.verdict = "none"
             ELSE locator' = locator]_vars

\* C30 witness: on March 5 a paragraph with the literal prefix, a heading with a
\* padded day and a heading with the full month name have been gone over
C30_Witness ==
    /\ skipped = 0
    /\ scan_date = [year |-> 2026, month |-> 3, day |-> 5]
    /\ doc_content = << Para(Mar5 \o Title), Heading(Mar05 \o Title, "HEADING_2"),
                        Heading(March5 \o Title, "HEADING_2") >>
    /\ locator = LocatorInit

\* C37: the names that end the Topics section end the pass only after the Topics
\* header. Before it, inside today's section, an element whose text is one of the
\* names, heading or not, leaves the state of the pass as it is, and a Topics
\* header with a topic under it that comes next makes the document one with
\* topics.
C37_NamesEndOnlyAfterHeader ==
    [][(/\ Examines
        /\ locator.verdict = "none"
        /\ locator.state = STATE_SEARCHING_TOPICS
        /\ Fed.paragraph
        /\ ~EndsSection(Fed)
        /\ Lower(get_paragraph_text(Fed)) \in TerminatorNames)
          => /\ locator' = locator
             /\ has_topics_for_today(
                    doc_content' \o << Para(<<"Topic", ":">>), Para(<<"-", " ", "Real topic">>) >>,
                    scan_date)]_vars

\* C37 witness: "Notes" read between today's heading and the Topics header
C37_Witness ==
    /\ skipped = 0
    /\ scan_date = Today
    /\ doc_content = << Heading(Feb26 \o Title, "HEADING_2"), Para(<<"Notes">>),
                        Para(<<"Topic", ":">>) >>
    /\ locator.state = STATE_CHECKING_CONTENT
    /\ locator.verdict = "none"

\* the k-th element of the document is a heading that starts with the day of the
\* pass, and the loop examined it
MatchesToday(k) ==
    /\ ~LimitReached(skipped + k)
    /\ IsHeading(doc_content[k])
    /\ StartsWith(get_paragraph_text(doc_content[k]), LiteralPrefix)

\* C38: the state of the pass goes from SEARCHING_DATE to SEARCHING_TOPICS to
\* CHECKING_CONTENT, one state at a time and never back. The rank of today's
\* heading is set once, on the step that leaves SEARCHING_DATE, from the first
\* heading that starts with the day of the pass; it is set exactly when the state
\* is not SEARCHING_DATE. "found" is given in CHECKING_CONTENT only.
C38_StatesAdvanceInOrder ==
    /\ [](/\ locator.state \in {STATE_SEARCHING_DATE, STATE_SEARCHING_TOPICS,
                                 STATE_CHECKING_CONTENT}
          /\ locator.date_heading_level # NoLevel <=> locator.state # STATE_SEARCHING_DATE
          /\ locator.state = STATE_SEARCHING_DATE =>
                \A k \in 1..Len(doc_content) : ~MatchesToday(k)
          /\ locator.verdict = "found" => locator.state = STATE_CHECKING_CONTENT)
    /\ [][/\ locator'.state \in {locator.state, locator.state + 1}
          /\ locator'.verdict = "found" => locator.state = STATE_CHECKING_CONTENT
          /\ locator'.date_heading_level # locator.date_heading_level =>
                /\ locator.state = STATE_SEARCHING_DATE
                /\ locator'.state = STATE_SEARCHING_TOPICS
                /\ Examines
                /\ IsHeading(Fed)
                /\ StartsWith(get_paragraph_text(Fed), LiteralPrefix)
                /\ locator'.date_heading_level = heading_level(Fed)]_vars

\* C38 witness: a pass that went through the three states and found a topic, the
\* rank of today's heading being that of the first element
C38_Witness ==
    /\ skipped = 0
    /\ scan_date = Today
    /\ doc_content = << Heading(Feb26 \o Title, "HEADING_2"),
                        Heading(<<"Topics", ":">>, "HEADING_3"),
                        Para(<<"-", " ", "Real topic">>) >>
    /\ locator = [state |-> STATE_CHECKING_CONTENT, date_heading_level |-> 2,
                  verdict |-> "found"]

\* the text of the k-th element of the document
TextAt(k) == IF doc_content[k].paragraph THEN get_paragraph_text(doc_content[k]) ELSE <<>>

\* the k-th element is a Topics header: its text, lower-cased and without one
\* trailing colon, is "topic" or "topics"
IsTopicsHeader(k) ==
    doc_content[k].paragraph /\ StripOneColon(Lower(TextAt(k))) \in { <<"topics">>, <<"topic">> }

\* the k-th element is a heading senior to the d-th, or a heading of its rank with
\* a date at the start
LeavesSectionOf(d, k) ==
    /\ IsHeading(doc_content[k])
    /\ \/ heading_level(doc_content[k]) < heading_level(doc_content[d])
       \/ /\ heading_level(doc_content[k]) = heading_level(doc_content[d])
          /\ DATE_PREFIX_RE_match(TextAt(k))

\* C39 as stated: a document is found to have topics only if it holds, in this
\* order, a heading that starts with the day of the pass, a Topics header and an
\* element with a text that is not empty and not a terminator name, no element
\* from the heading to that element being a heading senior to today's heading or a
\* heading of its rank with a date.
C39_PositiveIsSound ==
    locator.verdict = "found" =>
        \E d, t, c \in 1..Len(doc_content) :
            /\ d < t /\ t < c
            /\ IsHeading(doc_content[d]) /\ StartsWith(TextAt(d), LiteralPrefix)
            /\ IsTopicsHeader(t)
            /\ TextAt(c) # <<>> /\ Lower(TextAt(c)) \notin TerminatorNames
            /\ \A k \in (d + 1)..c : ~LeavesSectionOf(d, k)

(***************************************************************************)
(* Properties of extract_doc_ids_from_event.  They are checked under       *)
(* SpecResolver.                                                           *)
(***************************************************************************)
\* the caps that some event of SpecResolver has more attachments than
AttachmentCaps == 0..(MaxEntries - 1)

\* C28: there is a cap on the attachments inspected per event. For an event with
\* more attachments than the cap, no more than the cap are inspected.
C28_AttachmentCap ==
    \E cap \in AttachmentCaps :
        Len(event_attachments.items) > cap => inspected <= cap

\* an attachment whose id is returned, in the words of the contract
Qualifies(a) ==
    /\ a.is_dict
    /\ a.mimeType = "application/vnd.google-apps.document"
    /\ a.fileUrl.is_str
    /\ a.fileUrl.len <= 2048
    /\ a.fileUrl.match.name # ""
    /\ a.fileUrl.match.len <= 128

\* the ids of the qualifying attachments, in attachment order, repeated as often
\* as they occur
QualifyingIds ==
    LET kept == SelectSeq(event_attachments.items, Qualifies)
    IN  [ i \in 1..Len(kept) |-> kept[i].fileUrl.match ]

\* C29: extract_doc_ids_from_event returns exactly the ids of the attachments with
\* the document mime type, a string URL within the URL bound that holds
\* /document/d/<id>, and an id within the id bound, in attachment order and
\* without deduplication; every other attachment is skipped and the rest are
\* unaffected. The loop over the attachments and DocIdsOf agree.
C29_ExactIds ==
    returned =>
        /\ found_ids = QualifyingIds
        /\ found_ids = extract_doc_ids_from_event([attachments |-> event_attachments])

\* C29 witness: the same document attached twice, around an attachment whose id is
\* too long
C29_Witness ==
    /\ returned
    /\ Len(event_attachments.items) = 3
    /\ event_attachments.items[1].fileUrl = Url(80, DocA)
    /\ event_attachments.items[1].mimeType = DOC_MIME_TYPE
    /\ event_attachments.items[2].fileUrl = Url(165, DocLong)
    /\ event_attachments.items[3] = event_attachments.items[1]
    /\ found_ids = << DocA, DocA >>

(***************************************************************************)
(* Properties of should_cancel_event on one event.  They are checked under *)
(* SpecDecide.                                                             *)
(***************************************************************************)
\* the fetch succeeded and the answer has no well-formed content: the response or
\* its body is no dict, the content is no list, or body or content is missing
Malformed(o) ==
    /\ o.raises = "none"
    /\ \/ o.response.shape \in {"not_dict", "body_not_dict", "content_not_list"}
       \/ o.response.content = <<>>

\* C31: a document whose fetch succeeds with a malformed answer has no topics and
\* counts as read. An event whose documents are all malformed, or malformed and
\* unreadable with one malformed at least, is decided cancel:no_topics after every
\* document was tried, never keep:doc_error and never by an exception.
C31_MalformedIsNoTopics ==
    (/\ event_decision # NoResult
     /\ \E i \in 1..Len(responses) : Malformed(responses[i])
     /\ \A i \in 1..Len(responses) :
          Malformed(responses[i]) \/ responses[i].raises = "HttpError")
        => /\ event_decision = [cancel |-> TRUE, reason |-> "no_topics"]
           /\ tried = Len(responses)
           /\ read_any

\* C31 witness: the only document of the event answers with a content that is no
\* list, and the event is to be cancelled
C31_Witness ==
    /\ Len(responses) = 1
    /\ responses[1].raises = "none"
    /\ responses[1].response.shape = "content_not_list"
    /\ responses[1].response.content # <<>>
    /\ event_decision = [cancel |-> TRUE, reason |-> "no_topics"]

\* the fetch of the i-th document answers with a document that has topics for today
YieldsTopics(i) ==
    /\ responses[i].raises = "none"
    /\ has_topics_for_today(fetch_doc_content(responses[i].response), Today)

\* the index of the first document with topics, the number of documents if none has
FirstWithTopics ==
    LET with_topics == { i \in 1..Len(responses) : YieldsTopics(i) }
    IN  IF with_topics = {} THEN Len(responses)
        ELSE CHOOSE i \in with_topics : \A j \in with_topics : i <= j

\* C36 as stated: the documents are fetched in list order, and when
\* should_cancel_event is over the number of fetches issued is the index of the
\* first document with topics, or the number of documents if none has topics.
C36_FetchCount ==
    /\ [][tried' # tried => tried' = tried + 1]_vars
    /\ [](event_decision # NoResult => tried = FirstWithTopics)

(***************************************************************************)
(* Properties of main and of get_credentials.  They are checked under      *)
(* SpecMain.                                                               *)
(***************************************************************************)
\* C34 as stated: run once per day. With the marker of the last successful run at
\* today, main does not call get_todays_recurring_events and leaves the marker;
\* with the marker absent or at an earlier day, main calls it and the marker is at
\* today when the run is over.
C34_RunOncePerDay ==
    /\ [][last_success = "today" => (list_calls' = list_calls /\ last_success' = "today")]_vars
    /\ []((last_success # "today" /\ main_pc = "auth" /\ gc_pc = "returned") =>
             list_calls = 0)
    /\ [](main_pc = "finished" => (list_calls = 1 /\ last_success = "today"))

\* the browser flow and the write of the new token work
FlowAndSaveWork == env.flow = "ok" /\ env.save = "ok"

\* C35 as stated: when the token file exists and is corrupt or cannot be read,
\* get_credentials does not raise; it discards the token, runs the browser flow
\* once and returns the credentials the flow gave.
C35_BadTokenReauthorizes ==
    (/\ env.client_file
     /\ env.token \in {"ValueError", "KeyError", "OSError"}
     /\ FlowAndSaveWork
     /\ GcOver)
        => /\ gc_pc = "returned"
           /\ creds = "new"
           /\ flow_runs = 1

(***************************************************************************)
(* Properties of get_todays_recurring_events.  They are checked under      *)
(* SpecList.                                                               *)
(***************************************************************************)
\* C40: get_todays_recurring_events ends. It issues no more than 100 list calls
\* even when every page carries a next-page token, and a list call that fails
\* ends the loop with the events of the earlier pages returned, not with an
\* exception.
C40_ListingEnds ==
    /\ [](page_calls <= 100 /\ list_pc # "raised")
    /\ [][(page_calls' # page_calls /\ pages_fetched' = pages_fetched) =>
            (list_pc' = "returned" /\ collected' = collected)]_vars
    /\ <>(list_pc = "returned")

\* C40 witness: the hundredth page carried a token and an event, and the function
\* returned
C40_Witness ==
    /\ list_pc = "returned"
    /\ page_calls = 100
    /\ page_token = "token"
    /\ collected # <<>>

====
